---- MODULE Spec2Model ----
(***************************************************************************)
(* Bases heatmap view: the settings helpers (scheme ids), the data         *)
(* aggregation (processData), the settings tab (colour scheme CRUD), the   *)
(* view's render pipeline, the date and colour helpers, the cells of the   *)
(* grid and the plugin's registry of views, as state machines.             *)
(*                                                                         *)
(* Text is modelled as a sequence of one-character strings, so that the    *)
(* regular expressions and the parsing of the code act on characters.      *)
(* A Date is its local calendar day (days since 1970-01-01) and hour, in   *)
(* the time zone of the host, which is UTC or a zone with summer time;     *)
(* normalizeDate sets the hour to midnight.                                *)
(***************************************************************************)
EXTENDS Integers, Sequences, FiniteSets, TLC

VARIABLES
    slugIn,        \* prepareSchemeForSave: the arguments [scheme, isNew]
    slugOut        \* prepareSchemeForSave: <<>> before the call, <<result>> after

slugVars == <<slugIn, slugOut>>

VARIABLES
    pdArgs,        \* processData: its arguments
    pdIdx,         \* processData: index of the next entry of the for loop
    pd,            \* processData: the locals heatmapEntries, min, max, count, valueType
    pdOut          \* processData: <<>> while it runs, <<ProcessedData>> once returned

pdVars == <<pdArgs, pdIdx, pd, pdOut>>

VARIABLES
    defaultColorSchemes, \* the elements of the module's array DEFAULT_COLOR_SCHEMES
    settings,            \* plugin.settings: [loaded, aliased, own, dateFormat]
    savedData,           \* what saveData has stored: <<>> or <<[colorSchemes, dateFormat]>>
    modal                \* the EditSchemeModal: [open, isNew, error, scheme]

settingsVars == <<defaultColorSchemes, settings, savedData, modal>>

VARIABLES
    hostConfig,    \* the view: this.config, the options the host holds
    hostData,      \* the view: this.data
    isConnected,   \* the view: containerEl.isConnected
    activeViews,   \* the plugin: activeViews
    view           \* the view: [container, cleanupInteractions, processedData,
                   \*            gridListeners, renderOutcome]

viewVars == <<hostConfig, hostData, isConnected, activeViews, view>>

VARIABLES
    timeZone,      \* the host: the time zone local dates are read in
    utilCall,      \* a call of a helper of utils/date.ts or utils/color.ts: [fn, ...arguments]
    utilLocals,    \* the locals of the helper while it runs
    utilOut        \* <<>> while the helper runs, <<result>> once it has returned

utilVars == <<utilCall, utilLocals, utilOut>>

VARIABLES
    heatmapViews,  \* the HeatmapView objects: for each, [life, connected, config, view,
                   \*                                     renderedWith]
    saves          \* the saves of the settings tab: [started, pending, failed]

pluginVars == <<heatmapViews, saves>>

-----------------------------------------------------------------------------
(* Characters and strings                                                  *)

Digits == <<"0", "1", "2", "3", "4", "5", "6", "7", "8", "9">>

LowerLetters ==
    <<"a", "b", "c", "d", "e", "f", "g", "h", "i", "j", "k", "l", "m",
      "n", "o", "p", "q", "r", "s", "t", "u", "v", "w", "x", "y", "z">>

UpperLetters ==
    <<"A", "B", "C", "D", "E", "F", "G", "H", "I", "J", "K", "L", "M",
      "N", "O", "P", "Q", "R", "S", "T", "U", "V", "W", "X", "Y", "Z">>

Range(s) == {s[i] : i \in 1..Len(s)}

DigitChars == Range(Digits)

LowerChars == Range(LowerLetters)

UpperChars == Range(UpperLetters)

IsDigit(c) == c \in DigitChars

IsLower(c) == c \in LowerChars

IsUpper(c) == c \in UpperChars

IndexOf(s, c) == CHOOSE i \in 1..Len(s) : s[i] = c

DigitValues == [c \in DigitChars |-> IndexOf(Digits, c) - 1]

DigitValue(c) == DigitValues[c]

\* White space as String.prototype.trim and \s see it.
WhiteSpaceChars == {" ", "\t", "\n"}

IsSpace(c) == c \in WhiteSpaceChars

LowerOfUpper == [c \in UpperChars |-> LowerLetters[IndexOf(UpperLetters, c)]]

\* String.prototype.toLowerCase on one character. "KELVIN" stands for the
\* Kelvin sign U+212A, a non-ASCII letter whose lower case is ASCII "k";
\* "e_acute" stands for U+00E9, which is its own lower case.
toLowerCaseChar(c) ==
    IF IsUpper(c) THEN LowerOfUpper[c]
    ELSE IF c = "KELVIN" THEN "k"
    ELSE c

toLowerCase(s) == [i \in 1..Len(s) |-> toLowerCaseChar(s[i])]

RECURSIVE trimStart(_)
trimStart(s) ==
    IF s # <<>> /\ IsSpace(Head(s)) THEN trimStart(Tail(s)) ELSE s

RECURSIVE trimEnd(_)
trimEnd(s) ==
    IF s # <<>> /\ IsSpace(s[Len(s)]) THEN trimEnd(SubSeq(s, 1, Len(s) - 1)) ELSE s

trim(s) == trimEnd(trimStart(s))

-----------------------------------------------------------------------------
(* utils/date.ts                                                           *)

\* Days since 1970-01-01 of the civil date y-m-d (m in 1..12), and back.
daysFromCivil(y, m, d) ==
    LET yy  == IF m <= 2 THEN y - 1 ELSE y
        era == yy \div 400
        yoe == yy - era * 400
        mp  == IF m > 2 THEN m - 3 ELSE m + 9
        doy == (153 * mp + 2) \div 5 + d - 1
        doe == yoe * 365 + yoe \div 4 - yoe \div 100 + doy
    IN  era * 146097 + doe - 719468

civilFromDays(z) ==
    LET zz  == z + 719468
        era == zz \div 146097
        doe == zz - era * 146097
        yoe == (doe - doe \div 1460 + doe \div 36524 - doe \div 146096) \div 365
        doy == doe - (365 * yoe + yoe \div 4 - yoe \div 100)
        mp  == (5 * doy + 2) \div 153
        d   == doy - (153 * mp + 2) \div 5 + 1
        m   == IF mp < 10 THEN mp + 3 ELSE mp - 9
        y   == yoe + era * 400 + (IF m <= 2 THEN 1 ELSE 0)
    IN  [year |-> y, month |-> m, day |-> d]

\* A Date object: an hour of a local day, or Invalid Date (getTime() is NaN).
\* NullDate is the null a parser returns in place of a Date.
DateAt(n, h) == [kind |-> "date", day |-> n, hour |-> h]

ValidDate(n) == DateAt(n, 0)

InvalidDate == [kind |-> "invalid", day |-> 0, hour |-> 0]

NullDate == [kind |-> "null", day |-> 0, hour |-> 0]

\* isNaN(date.getTime())
isNaNDate(date) == date.kind = "invalid"

\* new Date(year, monthIndex, day): years 0..99 mean 1900..1999, and a month
\* index or a day outside the calendar carries over.
newDate(year, monthIndex, day) ==
    LET y0 == IF year \in 0..99 THEN 1900 + year ELSE year
        y  == y0 + monthIndex \div 12
        m  == monthIndex % 12
    IN  ValidDate(daysFromCivil(y, m + 1, 1) + day - 1)

getFullYear(date) == civilFromDays(date.day).year

\* 0-based, as Date.prototype.getMonth
getMonth(date) == civilFromDays(date.day).month - 1

getDate(date) == civilFromDays(date.day).day

\* Date.prototype.getDay: 0 is Sunday (1970-01-01 was a Thursday).
getDay(date) == (date.day + 4) % 7

HoursPerDay == 24

\* The time zones of the host: one without summer time, and one with the
\* European rule (since 1996: from 02:00 of the last Sunday of March to
\* 03:00 of the last Sunday of October the clocks are one hour ahead).
TimeZones == {"UTC", "Europe/Berlin"}

lastSundayOf(year, month) ==
    LET last == daysFromCivil(year, month, 31) IN last - ((last + 4) % 7)

inSummerTime(date) ==
    LET year  == civilFromDays(date.day).year
        local == date.day * HoursPerDay + date.hour
    IN  /\ year >= 1996
        /\ local >= lastSundayOf(year, 3) * HoursPerDay + 2
        /\ local < lastSundayOf(year, 10) * HoursPerDay + 3

\* Hours the local clock is ahead of UTC at the date.
utcOffset(date) ==
    IF timeZone = "Europe/Berlin" THEN (IF inSummerTime(date) THEN 2 ELSE 1) ELSE 0

\* Date.prototype.getTime in hours: every instant of the model is a whole
\* hour, so the milliseconds of the code are these hours times 3600000.
getTime(date) == date.day * HoursPerDay + date.hour - utcOffset(date)

\* setHours(0, 0, 0, 0) on a copy; Invalid Date stays invalid.
normalizeDate(date) == IF date.kind = "date" THEN DateAt(date.day, 0) ELSE date

RECURSIVE NatToString(_)
NatToString(n) ==
    IF n < 10 THEN <<Digits[n + 1]>>
    ELSE NatToString(n \div 10) \o <<Digits[(n % 10) + 1]>>

\* String(n)
numberToString(n) == IF n < 0 THEN <<"-">> \o NatToString(-n) ELSE NatToString(n)

\* .padStart(2, "0")
padStart2(s) == IF Len(s) < 2 THEN <<"0">> \o s ELSE s

RECURSIVE DigitsToNat(_)
DigitsToNat(s) ==
    IF s = <<>> THEN 0
    ELSE DigitsToNat(SubSeq(s, 1, Len(s) - 1)) * 10 + DigitValue(s[Len(s)])

AllDigits(s) == \A i \in 1..Len(s) : IsDigit(s[i])

\* ISO_DATE_REGEX = /^(\d{4})-(\d{2})-(\d{2})$/
matchesIsoDateRegex(s) ==
    /\ Len(s) = 10
    /\ s[5] = "-" /\ s[8] = "-"
    /\ AllDigits(SubSeq(s, 1, 4)) /\ AllDigits(SubSeq(s, 6, 7)) /\ AllDigits(SubSeq(s, 9, 10))

parseISODateString(dateStr) ==
    LET s == trim(dateStr)
    IN  IF ~matchesIsoDateRegex(s) THEN NullDate
        ELSE normalizeDate(newDate(DigitsToNat(SubSeq(s, 1, 4)),
                                   DigitsToNat(SubSeq(s, 6, 7)) - 1,
                                   DigitsToNat(SubSeq(s, 9, 10))))

formatDateISO(date) ==
    numberToString(getFullYear(date)) \o <<"-">> \o padStart2(numberToString(getMonth(date) + 1))
        \o <<"-">> \o padStart2(numberToString(getDate(date)))

IsLeapYear(y) == (y % 4 = 0 /\ y % 100 # 0) \/ y % 400 = 0

DaysInMonth(y, m) ==
    IF m = 2 THEN (IF IsLeapYear(y) THEN 29 ELSE 28)
    ELSE IF m \in {4, 6, 9, 11} THEN 30 ELSE 31

\* new Date(text) for text that is not strict ISO, as the engine's legacy
\* parser reads it: YYYY/MM/DD of a real calendar day is that local day,
\* anything else of the modelled texts is Invalid Date.
legacyDateParse(text) ==
    LET s == trim(text)
    IN  IF /\ Len(s) = 10
           /\ s[5] = "/" /\ s[8] = "/"
           /\ AllDigits(SubSeq(s, 1, 4)) /\ AllDigits(SubSeq(s, 6, 7))
           /\ AllDigits(SubSeq(s, 9, 10))
        THEN LET y == DigitsToNat(SubSeq(s, 1, 4))
                 m == DigitsToNat(SubSeq(s, 6, 7))
                 d == DigitsToNat(SubSeq(s, 9, 10))
             IN  IF y >= 100 /\ m \in 1..12 /\ d \in 1..DaysInMonth(y, m)
                 THEN newDate(y, m - 1, d) ELSE InvalidDate
        ELSE InvalidDate

\* parseISODateString(s) ?? new Date(s)
parseIsoOrLegacy(text) ==
    LET iso == parseISODateString(text)
    IN  IF iso.kind # "null" THEN iso ELSE legacyDateParse(text)

DefaultDateFormat == <<"Y", "Y", "Y", "Y", "-", "M", "M", "-", "D", "D">>

\* .replace(/\.md$/i, "")
stripMdExtension(filename) ==
    LET n == Len(filename)
    IN  IF n >= 3 /\ toLowerCase(SubSeq(filename, n - 2, n)) = <<".", "m", "d">>
        THEN SubSeq(filename, 1, n - 3) ELSE filename

\* moment(text, format, true): strict parsing. With the format YYYY-MM-DD the
\* text must have that shape and name a real calendar day; the modelled
\* file names match no other format.
momentStrict(text, format) ==
    IF format = DefaultDateFormat /\ matchesIsoDateRegex(text)
    THEN LET y == DigitsToNat(SubSeq(text, 1, 4))
             m == DigitsToNat(SubSeq(text, 6, 7))
             d == DigitsToNat(SubSeq(text, 9, 10))
         IN  IF m \in 1..12 /\ d \in 1..DaysInMonth(y, m)
             THEN ValidDate(daysFromCivil(y, m, d)) ELSE InvalidDate
    ELSE InvalidDate

parseDateFromFilename(filename, format) ==
    LET name == stripMdExtension(filename)
        fmt  == trim(format)
    IN  IF fmt = <<>> THEN NullDate
        ELSE LET m == momentStrict(trim(name), fmt)
             IN  IF m.kind # "date" THEN NullDate ELSE normalizeDate(m)

-----------------------------------------------------------------------------
(* utils/data.ts                                                           *)

\* The host's property values (obsidian Value classes). JsNull is the null
\* that getValue returns for a property the note does not have.
JsNull == [kind |-> "jsnull", truthy |-> FALSE, text |-> <<>>]

NullValue == [kind |-> "null", truthy |-> FALSE, text |-> <<>>]

BooleanValue(b) ==
    [kind |-> "boolean", truthy |-> b,
     text |-> IF b THEN <<"t", "r", "u", "e">> ELSE <<"f", "a", "l", "s", "e">>]

NumberValue(text) == [kind |-> "number", truthy |-> TRUE, text |-> text]

StringValue(text) == [kind |-> "string", truthy |-> text # <<>>, text |-> text]

\* A value of another class (a list, a link, a date, ...).
OtherValue(text, truthy) == [kind |-> "other", truthy |-> truthy, text |-> text]

\* number | null
NoNumber == [isNull |-> TRUE, v |-> 0]

Num(v) == [isNull |-> FALSE, v |-> v]

\* A running minimum or maximum: Infinity, -Infinity or a finite number.
PosInfinity == [inf |-> 1, v |-> 0]

NegInfinity == [inf |-> -1, v |-> 0]

Finite(v) == [inf |-> 0, v |-> v]

\* Math.min(m, v) and Math.max(m, v) for a finite v
mathMin(m, v) == IF m.inf = 1 \/ (m.inf = 0 /\ v < m.v) THEN Finite(v) ELSE m

\* A variant that keeps the first value as the maximum:
mathMax_First(m, v) == IF m.inf = -1 THEN Finite(v) ELSE m

mathMax(m, v) == IF m.inf = -1 \/ (m.inf = 0 /\ v > m.v) THEN Finite(v) ELSE m

\* An optional sign and digits: the decimal texts of the model are whole numbers.
IsIntegerText(s) ==
    LET body == IF s # <<>> /\ Head(s) = "-" THEN Tail(s) ELSE s
    IN  body # <<>> /\ AllDigits(body)

IntegerOfText(s) ==
    IF Head(s) = "-" THEN 0 - DigitsToNat(Tail(s)) ELSE DigitsToNat(s)

\* Number(str) of a NumberValue's text: NoNumber stands for NaN.
jsNumber(text) == IF IsIntegerText(text) THEN Num(IntegerOfText(text)) ELSE NoNumber

\* NUMBER_REGEX = /^-?\d+(\.\d+)?$/
matchesNumberRegex(s) ==
    LET body == IF s # <<>> /\ Head(s) = "-" THEN Tail(s) ELSE s
        dots == {i \in 1..Len(body) : body[i] = "."}
    IN  IF dots = {} THEN body # <<>> /\ AllDigits(body)
        ELSE /\ Cardinality(dots) = 1
             /\ LET k == CHOOSE i \in dots : TRUE
                IN  /\ 1 < k /\ k < Len(body)
                    /\ AllDigits(SubSeq(body, 1, k - 1))
                    /\ AllDigits(SubSeq(body, k + 1, Len(body)))

\* parseFloat of a text that matches NUMBER_REGEX. Numbers are integers in
\* the model: the fraction digits of the modelled texts are zeros.
parseFloatMatched(s) ==
    LET dots  == {i \in 1..Len(s) : s[i] = "."}
        whole == IF dots = {} THEN s ELSE SubSeq(s, 1, (CHOOSE i \in dots : TRUE) - 1)
    IN  IntegerOfText(whole)

unsupported(displayValue) ==
    [value |-> NoNumber, displayValue |-> displayValue, type |-> "unsupported"]

\* <<>> when the text is no number, <<[value, displayValue]>> otherwise
parseStringAsNumber(str) ==
    LET trimmed == trim(str)
    IN  IF ~matchesNumberRegex(trimmed) THEN <<>>
        ELSE <<[value |-> parseFloatMatched(trimmed), displayValue |-> str]>>

parseStringAsBoolean(str) ==
    LET lower == toLowerCase(str)
    IN  IF lower = <<"t", "r", "u", "e">> \/ lower = <<"y", "e", "s">>
        THEN <<[value |-> 1, displayValue |-> <<"Y", "e", "s">>]>>
        ELSE IF lower = <<"f", "a", "l", "s", "e">> \/ lower = <<"n", "o">>
        THEN <<[value |-> 0, displayValue |-> <<"N", "o">>]>>
        ELSE <<>>

\* No property configured (getAsPropertyId returns null).
NoProperty == ""

\* String(propertyId)
PropertyText(property) ==
    IF property = "value" THEN <<"v", "a", "l", "u", "e">>
    ELSE IF property = "date" THEN <<"d", "a", "t", "e">>
    ELSE <<>>

\* entry.getValue(property)
getValue(entry, property) == entry.props[property]

\* <<>> is the null result, otherwise the ISO text of the date
parseDateValue(dateStr) ==
    LET parsed == parseIsoOrLegacy(dateStr)
    IN  IF isNaNDate(parsed) THEN <<>> ELSE formatDateISO(parsed)

extractDate(entry, dateProperty, dateFormat) ==
    IF dateProperty = NoProperty
    THEN LET parsed == parseDateFromFilename(entry.file.basename, dateFormat)
         IN  IF parsed.kind = "null" THEN <<>> ELSE formatDateISO(parsed)
    ELSE LET value == getValue(entry, dateProperty)
         IN  IF value.kind \in {"jsnull", "null"} THEN <<>>
             ELSE parseDateValue(value.text)

extractValue(entry, valueProperty) ==
    LET obsidianValue == getValue(entry, valueProperty)
    IN  CASE obsidianValue.kind \in {"jsnull", "null"} ->
               unsupported(PropertyText(valueProperty)
                           \o <<":", " ", "n", "o", "t", " ", "s", "e", "t">>)
          [] obsidianValue.kind = "boolean" ->
               [value |-> Num(IF obsidianValue.truthy THEN 1 ELSE 0),
                displayValue |-> IF obsidianValue.truthy THEN <<"Y", "e", "s">>
                                 ELSE <<"N", "o">>,
                type |-> "boolean"]
          [] obsidianValue.kind = "number" ->
               LET numVal == jsNumber(obsidianValue.text)
               IN  IF numVal.isNull THEN unsupported(obsidianValue.text)
                   ELSE [value |-> numVal, displayValue |-> obsidianValue.text,
                         type |-> "number"]
          [] obsidianValue.kind = "string" ->
               LET numResult  == parseStringAsNumber(obsidianValue.text)
                   boolResult == parseStringAsBoolean(obsidianValue.text)
               IN  IF numResult # <<>>
                   THEN [value |-> Num(numResult[1].value),
                         displayValue |-> numResult[1].displayValue, type |-> "number"]
                   ELSE IF boolResult # <<>>
                   THEN [value |-> Num(boolResult[1].value),
                         displayValue |-> boolResult[1].displayValue, type |-> "boolean"]
                   ELSE unsupported(obsidianValue.text)
          [] OTHER -> unsupported(obsidianValue.text)

\* The running valueType after an entry; "unset" is the initial null.
\* A variant in which the type of the latest usable value wins:
nextValueType_LastWins(valueType, value, type) ==
    IF ~value.isNull /\ type \in {"number", "boolean"} THEN type ELSE valueType

nextValueType(valueType, value, type) ==
    IF ~value.isNull /\ type \in {"number", "boolean"}
    THEN IF valueType = "unset" THEN type
         ELSE IF valueType # type THEN "unsupported"
         ELSE valueType
    ELSE valueType

\* shouldSet, for the entry already kept for the date (if any) and the new value.
\* A variant in which the latest entry of a date always replaces the kept one:
shouldSet_Always(hasExisting, existingValue, value) == TRUE

shouldSet(hasExisting, existingValue, value) ==
    \/ ~hasExisting
    \/ (~value.isNull /\ (existingValue.isNull \/ value.v > existingValue.v))

\* The locals of processData before the loop.
processDataStart ==
    [entries |-> <<>>, min |-> PosInfinity, max |-> NegInfinity, count |-> 0,
     valueType |-> "unset"]

\* One iteration of the for loop of processData.
\* A variant that takes the type of the value before it looks at the date:
processDataEntry_TypeFirst(acc, entry, dateProperty, dateFormat, valueProperty) ==
    LET date == extractDate(entry, dateProperty, dateFormat)
        ev   == extractValue(entry, valueProperty)
        has  == date \in DOMAIN acc.entries
        old  == IF has THEN acc.entries[date].value ELSE NoNumber
    IN  IF date = <<>>
        THEN [acc EXCEPT !.valueType = nextValueType(acc.valueType, ev.value, ev.type)]
        ELSE [entries |->
                  IF shouldSet(has, old, ev.value)
                  THEN [d \in DOMAIN acc.entries \cup {date} |->
                          IF d = date
                          THEN [date |-> date, value |-> ev.value, note |-> entry.file,
                                displayValue |-> ev.displayValue]
                          ELSE acc.entries[d]]
                  ELSE acc.entries,
              min |-> IF ev.value.isNull THEN acc.min ELSE mathMin(acc.min, ev.value.v),
              max |-> IF ev.value.isNull THEN acc.max ELSE mathMax(acc.max, ev.value.v),
              count |-> IF ev.value.isNull THEN acc.count ELSE acc.count + 1,
              valueType |-> nextValueType(acc.valueType, ev.value, ev.type)]

processDataEntry(acc, entry, dateProperty, dateFormat, valueProperty) ==
    LET date == extractDate(entry, dateProperty, dateFormat)
    IN  IF date = <<>> THEN acc
        ELSE
          LET ev  == extractValue(entry, valueProperty)
              has == date \in DOMAIN acc.entries
              old == IF has THEN acc.entries[date].value ELSE NoNumber
          IN  [entries |->
                   IF shouldSet(has, old, ev.value)
                   THEN [d \in DOMAIN acc.entries \cup {date} |->
                           IF d = date
                           THEN [date |-> date, value |-> ev.value, note |-> entry.file,
                                 displayValue |-> ev.displayValue]
                           ELSE acc.entries[d]]
                   ELSE acc.entries,
               min |-> IF ev.value.isNull THEN acc.min ELSE mathMin(acc.min, ev.value.v),
               max |-> IF ev.value.isNull THEN acc.max ELSE mathMax(acc.max, ev.value.v),
               count |-> IF ev.value.isNull THEN acc.count ELSE acc.count + 1,
               valueType |-> nextValueType(acc.valueType, ev.value, ev.type)]

\* The stats after the loop.
\* A variant without the correction of a range of one value:
finalStats_NoCorrection(min, max, count, valueType) ==
    [min |-> IF count = 0 THEN 0 ELSE min.v,
     max |-> IF count = 0 THEN 1 ELSE max.v,
     count |-> count,
     valueType |-> IF valueType = "unset" THEN "unsupported" ELSE valueType]

finalStats(min, max, count, valueType) ==
    [min |-> IF count = 0 THEN 0
             ELSE IF min = max /\ min.v > 0 THEN 0
             ELSE min.v,
     max |-> IF count = 0 THEN 1 ELSE max.v,
     count |-> count,
     valueType |-> IF valueType = "unset" THEN "unsupported" ELSE valueType]

\* The return statement of processData.
processDataReturn(acc) ==
    [entries |-> acc.entries,
     stats |-> finalStats(acc.min, acc.max, acc.count, acc.valueType)]

RECURSIVE processDataLoop(_, _, _, _, _)
processDataLoop(acc, entries, dateProperty, dateFormat, valueProperty) ==
    IF entries = <<>> THEN acc
    ELSE processDataLoop(
             processDataEntry(acc, Head(entries), dateProperty, dateFormat, valueProperty),
             Tail(entries), dateProperty, dateFormat, valueProperty)

processData(entries, dateProperty, dateFormat, valueProperty) ==
    processDataReturn(
        processDataLoop(processDataStart, entries, dateProperty, dateFormat, valueProperty))

-----------------------------------------------------------------------------
(* settings/utils.ts                                                       *)

\* The character class [a-z0-9].
IsSlugChar(c) == IsLower(c) \/ IsDigit(c)

RECURSIVE dropNonSlugPrefix(_)
dropNonSlugPrefix(s) ==
    IF s # <<>> /\ ~IsSlugChar(Head(s)) THEN dropNonSlugPrefix(Tail(s)) ELSE s

\* A variant that replaces every character outside [a-z0-9] on its own
\* (the pattern without its +).
RECURSIVE replaceEachNonSlug(_)
replaceEachNonSlug(s) ==
    IF s = <<>> THEN <<>>
    ELSE IF IsSlugChar(Head(s)) THEN <<Head(s)>> \o replaceEachNonSlug(Tail(s))
    ELSE <<"-">> \o replaceEachNonSlug(Tail(s))

\* .replace(/[^a-z0-9]+/g, "-"): every maximal run outside [a-z0-9]
\* becomes one hyphen.
RECURSIVE replaceNonSlugRuns(_)
replaceNonSlugRuns(s) ==
    IF s = <<>> THEN <<>>
    ELSE IF IsSlugChar(Head(s)) THEN <<Head(s)>> \o replaceNonSlugRuns(Tail(s))
    ELSE <<"-">> \o replaceNonSlugRuns(dropNonSlugPrefix(Tail(s)))

\* .replace(/^-|-$/g, ""): one hyphen off the start, one off the end.
stripEdgeHyphens(s) ==
    LET a == IF s # <<>> /\ Head(s) = "-" THEN Tail(s) ELSE s
    IN  IF a # <<>> /\ a[Len(a)] = "-" THEN SubSeq(a, 1, Len(a) - 1) ELSE a

SchemeFallbackId == <<"s", "c", "h", "e", "m", "e">>

generateSchemeId_EachChar(name) ==
    LET id == stripEdgeHyphens(replaceEachNonSlug(toLowerCase(name)))
    IN  IF id = <<>> THEN SchemeFallbackId ELSE id

generateSchemeId(name) ==
    LET id == stripEdgeHyphens(replaceNonSlugRuns(toLowerCase(name)))
    IN  IF id = <<>> THEN SchemeFallbackId ELSE id

\* validateScheme without the trim.
validateScheme_NoTrim(scheme) == scheme.name # <<>>

\* TRUE when the scheme is valid (validateScheme returns null), FALSE when
\* it returns the name-required message.
validateScheme(scheme) == trim(scheme.name) # <<>>

prepareSchemeForSave(scheme, isNew) ==
    [scheme EXCEPT !.id = IF isNew THEN generateSchemeId(scheme.name) ELSE scheme.id]

-----------------------------------------------------------------------------
(* settings/index.ts, main.ts: the settings                                *)

\* A ColorSchemeItem.
ColorSchemeItem(id, name, zeroColor, maxColor, isDefault) ==
    [id |-> id, name |-> name, zeroColor |-> zeroColor, maxColor |-> maxColor,
     isDefault |-> isDefault]

\* The array literal of DEFAULT_COLOR_SCHEMES: what the array holds when the
\* module is loaded.
DEFAULT_COLOR_SCHEMES ==
    << ColorSchemeItem(<<"g", "r", "e", "e", "n">>, <<"G", "r", "e", "e", "n">>,
                       "#ebedf0", "#39d353", TRUE),
       ColorSchemeItem(<<"p", "u", "r", "p", "l", "e">>, <<"P", "u", "r", "p", "l", "e">>,
                       "#ebedf0", "#a78bfa", TRUE),
       ColorSchemeItem(<<"b", "l", "u", "e">>, <<"B", "l", "u", "e">>,
                       "#ebedf0", "#38bdf8", TRUE),
       ColorSchemeItem(<<"o", "r", "a", "n", "g", "e">>, <<"O", "r", "a", "n", "g", "e">>,
                       "#ebedf0", "#fb923c", TRUE),
       ColorSchemeItem(<<"g", "r", "a", "y">>, <<"G", "r", "a", "y">>,
                       "#ebedf0", "#adbac7", TRUE) >>

\* settings.colorSchemes is a reference to an array. It is either the array
\* DEFAULT_COLOR_SCHEMES itself (aliased) or an array of its own; the
\* elements of the first are defaultColorSchemes, of the second settings.own.
colorSchemesOf(defaults, s) == IF s.aliased THEN defaults ELSE s.own

\* The array pair after the array settings.colorSchemes refers to has been
\* changed in place to hold elems (push, splice, index assignment).
\* [defaults, settings]
assignInPlace(defaults, s, elems) ==
    IF s.aliased THEN [defaults |-> elems, settings |-> s]
    ELSE [defaults |-> defaults, settings |-> [s EXCEPT !.own = elems]]

\* The settings before loadSettings has run.
UnloadedSettings ==
    [loaded |-> FALSE, aliased |-> TRUE, own |-> <<>>, dateFormat |-> DefaultDateFormat]

\* loadSettings: Object.assign({}, DEFAULT_SETTINGS, loaded) and the two
\* repairs. saved is <<>> for null, else <<[colorSchemes, dateFormat]>> with
\* each field <<>> when absent and <<value>> when present.
loadSettings(saved) ==
    LET hasSchemes == saved # <<>> /\ saved[1].colorSchemes # <<>>
        schemes    == IF hasSchemes THEN saved[1].colorSchemes[1] ELSE <<>>
        hasFormat  == saved # <<>> /\ saved[1].dateFormat # <<>>
        format     == IF hasFormat THEN saved[1].dateFormat[1] ELSE DefaultDateFormat
        own        == hasSchemes /\ Len(schemes) # 0
    IN  [loaded |-> TRUE,
         aliased |-> ~own,
         own |-> IF own THEN schemes ELSE <<>>,
         dateFormat |-> IF format = <<>> THEN DefaultDateFormat ELSE format]

\* saveSettings: what saveData(this.settings) stores.
saveSettings(defaults, s) ==
    << [colorSchemes |-> <<colorSchemesOf(defaults, s)>>, dateFormat |-> <<s.dateFormat>>] >>

-----------------------------------------------------------------------------
(* utils/date.ts: calculateDateRange                                       *)

\* getDefaultDateStrings(): the first and the last day of the current year.
getDefaultDateStrings(now) ==
    LET year == numberToString(getFullYear(now))
    IN  [startDate |-> year \o <<"-", "0", "1", "-", "0", "1">>,
         endDate |-> year \o <<"-", "1", "2", "-", "3", "1">>]

\* The earliest of a non-empty set of Dates (the head of the sorted array).
earliestDate(dates) ==
    CHOOSE d \in dates : \A e \in dates : getTime(d) <= getTime(e)

\* calculateDateRange(entries, startDate, endDate); startDate and endDate are
\* <<>> when null or empty.
calculateDateRange(entries, startDate, endDate, now) ==
    LET parsedEnd   == IF endDate # <<>> THEN parseISODateString(endDate) ELSE NullDate
        end0        == IF parsedEnd.kind # "null" THEN normalizeDate(parsedEnd)
                       ELSE normalizeDate(now)
        end         == IF isNaNDate(end0) THEN normalizeDate(now) ELSE end0
        parsedStart == IF startDate # <<>> THEN parseISODateString(startDate) ELSE NullDate
        dates       == {d \in {parseIsoOrLegacy(k) : k \in DOMAIN entries} : ~isNaNDate(d)}
        start       == IF parsedStart.kind # "null" /\ ~isNaNDate(parsedStart)
                       THEN normalizeDate(parsedStart)
                       ELSE IF dates # {} THEN normalizeDate(earliestDate(dates))
                       ELSE newDate(getFullYear(end), 0, 1)
    IN  [start |-> normalizeDate(start), end |-> end]

-----------------------------------------------------------------------------
(* view/interactions.ts, view/renderer.tsx, view/HeatmapView.ts            *)

MAX_RANGE_DAYS == 5 * 365

\* cleanupInteractions = null
NoCleanup == 0

\* The listeners of the grids: a function from the grids that are in the
\* container or hold a listener to the set of event types they listen to.
addEventListener(listeners, grid, type) ==
    [listeners EXCEPT ![grid] = @ \cup {type}]

removeEventListener(listeners, grid, type) ==
    [listeners EXCEPT ![grid] = @ \ {type}]

\* setupInteractions: the listeners once the click and the mouseover handler
\* are attached to the grid. The disposer it returns closes over the grid.
setupInteractions(listeners, grid) ==
    addEventListener(addEventListener(listeners, grid, "click"), grid, "mouseover")

\* A variant of the disposer that leaves the mouseover handler attached.
disposeInteractions_ClickOnly(listeners, grid) ==
    removeEventListener(listeners, grid, "click")

\* The disposer setupInteractions returned for the grid.
disposeInteractions(listeners, grid) ==
    removeEventListener(removeEventListener(listeners, grid, "click"), grid, "mouseover")

\* A new element: one that is none of the live grids.
freshGrid(listeners) ==
    CHOOSE g \in 1..(Cardinality(DOMAIN listeners) + 1) :
        /\ g \notin DOMAIN listeners
        /\ \A h \in 1..(g - 1) : h \in DOMAIN listeners

\* Grids out of the container that hold no listener are garbage.
liveGrids(listeners, container) ==
    LET shown == {container[i].id : i \in {j \in 1..Len(container) : container[j].kind = "grid"}}
        live  == {g \in DOMAIN listeners : g \in shown \/ listeners[g] # {}}
    IN  [g \in live |-> listeners[g]]

createEmptyState(message, description) ==
    [kind |-> "emptyState", message |-> message, description |-> description]

showEmptyState(container, title, description) ==
    Append(container, createEmptyState(title, description))

\* renderHeatmap: the root element of the grid.
renderHeatmap(data, dateRange, options, grid) ==
    [kind |-> "grid", id |-> grid, dateRange |-> dateRange, options |-> options]

\* getSchemeDefinition(scheme)
getSchemeDefinition(scheme) == [zero |-> scheme.zeroColor, max |-> scheme.maxColor]

\* The number Infinity: an integer above every other number of the model,
\* and 0 - Infinity is -Infinity. The comparisons of the code are the
\* comparisons of the integers; the arithmetic on them is written out where
\* the code does arithmetic on a number that can be infinite.
Infinity == 1000000000

InfinityText == <<"I", "n", "f", "i", "n", "i", "t", "y">>

startsWith(s, prefix) == Len(s) >= Len(prefix) /\ SubSeq(s, 1, Len(prefix)) = prefix

\* parseFloat(text): after leading white space, Infinity with an optional
\* sign, or the number of the longest prefix that is a number; <<>> is NaN.
parseFloat(text) ==
    LET s       == trimStart(text)
        lengths == {n \in 1..Len(s) : matchesNumberRegex(SubSeq(s, 1, n))}
    IN  IF startsWith(s, InfinityText) \/ startsWith(s, <<"+">> \o InfinityText)
        THEN <<Infinity>>
        ELSE IF startsWith(s, <<"-">> \o InfinityText) THEN <<0 - Infinity>>
        ELSE IF lengths = {} THEN <<>>
        ELSE <<parseFloatMatched(
                   SubSeq(s, 1, CHOOSE n \in lengths : \A m \in lengths : m <= n))>>

parseNumericValue(value) ==
    IF value = <<>> THEN NoNumber
    ELSE LET parsed == parseFloat(value)
         IN  IF parsed # <<>> THEN Num(parsed[1]) ELSE NoNumber

GreenSchemeId == <<"g", "r", "e", "e", "n">>

\* getConfig(): the options of the host's view configuration with their
\* defaults.
getConfig(config, now) ==
    LET defaults == getDefaultDateStrings(now)
    IN  [dateProperty |-> config.dateProperty,
         valueProperty |-> config.valueProperty,
         startDate |-> IF config.startDate # <<>> THEN config.startDate
                       ELSE defaults.startDate,
         endDate |-> IF config.endDate # <<>> THEN config.endDate ELSE defaults.endDate,
         colorScheme |-> IF config.colorScheme # <<>> THEN config.colorScheme
                         ELSE GreenSchemeId,
         minValue |-> parseNumericValue(config.minValue),
         maxValue |-> parseNumericValue(config.maxValue)]

\* A variant of the order check that lets start = end through.
startNotBeforeEnd_AfterOnly(start, end) == getTime(start) > getTime(end)

\* start.getTime() >= end.getTime()
startNotBeforeEnd(start, end) == getTime(start) >= getTime(end)

\* validateData(viewConfig). data is <<>> when this.data is not set, else
\* <<[data]>> with data <<>> when data.data is not set, else <<entries>>.
\* The result is [entries, container]: entries is <<>> for null.
validateData(viewConfig, data, container) ==
    LET checked == viewConfig.startDate # <<>> /\ viewConfig.endDate # <<>>
        start   == parseISODateString(viewConfig.startDate)
        end     == parseISODateString(viewConfig.endDate)
        entries == IF data[1].data = <<>> THEN <<>> ELSE data[1].data[1]
    IN  IF viewConfig.valueProperty = NoProperty
        THEN [entries |-> <<>>,
              container |-> showEmptyState(container, "view.emptyState.configureProperty",
                                           "view.emptyState.configurePropertyDesc")]
        ELSE IF checked /\ (start.kind = "null" \/ end.kind = "null")
        THEN [entries |-> <<>>,
              container |-> showEmptyState(container, "view.emptyState.invalidDateFormat",
                                           "view.emptyState.invalidDateFormatDesc")]
        ELSE IF checked /\ startNotBeforeEnd(start, end)
        THEN [entries |-> <<>>,
              container |-> showEmptyState(container, "view.emptyState.startAfterEnd",
                                           "view.emptyState.startAfterEndDesc")]
        ELSE IF data = <<>>
        THEN [entries |-> <<>>, container |-> container]
        ELSE IF Len(entries) = 0
        THEN [entries |-> <<>>,
              container |-> showEmptyState(container, "view.emptyState.noData",
                                           "view.emptyState.noDataDesc")]
        ELSE [entries |-> <<entries>>, container |-> container]

\* colorSchemes.find((s) => s.id === id) ?? colorSchemes[0]; <<>> is undefined.
findSchemeItem(colorSchemes, id) ==
    LET found == {i \in 1..Len(colorSchemes) : colorSchemes[i].id = id}
    IN  IF found # {} THEN <<colorSchemes[CHOOSE i \in found : \A j \in found : i <= j]>>
        ELSE IF Len(colorSchemes) > 0 THEN <<colorSchemes[1]>>
        ELSE <<>>

\* The view a render leaves: the grids nothing refers to are collected.
rendered(v, outcome) ==
    [v EXCEPT !.gridListeners = liveGrids(v.gridListeners, v.container),
              !.renderOutcome = outcome]

\* render(), in the order of its statements. v is the view: container (the
\* children of containerEl), cleanupInteractions (the grid of the disposer,
\* or NoCleanup), processedData (<<>> for null), gridListeners,
\* renderOutcome.

\* The range check, the scheme and the grid.
renderGrid(v, grid, dateRange, schemeItem) ==
    IF getTime(dateRange.end) - getTime(dateRange.start) > MAX_RANGE_DAYS * HoursPerDay
    THEN rendered([v EXCEPT
                      !.container =
                          showEmptyState(@, "view.emptyState.rangeTooLarge",
                                         "view.emptyState.rangeTooLargeDesc")],
                  "returned")
    ELSE IF schemeItem = <<>>
    THEN rendered(v, "threw")
    ELSE rendered([v EXCEPT
                      !.container =
                          Append(@, renderHeatmap(
                                        v.processedData[1], dateRange,
                                        [schemeDefinition |->
                                             getSchemeDefinition(schemeItem[1])],
                                        grid)),
                      !.gridListeners =
                          setupInteractions(
                              [g \in DOMAIN v.gridListeners \cup {grid} |->
                                  IF g = grid THEN {} ELSE v.gridListeners[g]],
                              grid),
                      !.cleanupInteractions = grid],
                  "returned")

\* The checks of the processed data, with this.processedData assigned.
renderProcessed(v, grid, viewConfig, colorSchemes, now) ==
    IF v.processedData[1].stats.valueType = "unsupported"
    THEN rendered([v EXCEPT
                      !.container =
                          showEmptyState(@, "view.emptyState.unsupportedProperty",
                                         "view.emptyState.unsupportedPropertyDesc")],
                  "returned")
    ELSE IF DOMAIN v.processedData[1].entries = {}
    THEN rendered([v EXCEPT
                      !.processedData[1].stats.min =
                          IF viewConfig.minValue.isNull THEN @ ELSE viewConfig.minValue.v,
                      !.processedData[1].stats.max =
                          IF viewConfig.maxValue.isNull THEN @ ELSE viewConfig.maxValue.v,
                      !.container =
                          showEmptyState(@, "view.emptyState.noDatedNotes",
                                         "view.emptyState.noDatedNotesDesc")],
                  "returned")
    ELSE renderGrid([v EXCEPT
                        !.processedData[1].stats.min =
                            IF viewConfig.minValue.isNull THEN @ ELSE viewConfig.minValue.v,
                        !.processedData[1].stats.max =
                            IF viewConfig.maxValue.isNull THEN @ ELSE viewConfig.maxValue.v],
                    grid,
                    calculateDateRange(v.processedData[1].entries, viewConfig.startDate,
                                       viewConfig.endDate, now),
                    findSchemeItem(colorSchemes, viewConfig.colorScheme))

\* The return on no entries, and processData.
renderValidated(v, grid, viewConfig, validated, colorSchemes, dateFormat, now) ==
    IF validated.entries = <<>> \/ viewConfig.valueProperty = NoProperty
    THEN rendered([v EXCEPT !.container = validated.container], "returned")
    ELSE renderProcessed(
             [v EXCEPT !.processedData =
                           <<processData(validated.entries[1], viewConfig.dateProperty,
                                         dateFormat, viewConfig.valueProperty)>>],
             grid, viewConfig, colorSchemes, now)

\* validateData on the emptied container.
renderConfig(v, grid, viewConfig, data, colorSchemes, dateFormat, now) ==
    renderValidated(v, grid, viewConfig, validateData(viewConfig, data, v.container),
                    colorSchemes, dateFormat, now)

render(v, config, data, colorSchemes, dateFormat, now) ==
    renderConfig([v EXCEPT
                     !.gridListeners =
                         IF v.cleanupInteractions # NoCleanup
                         THEN disposeInteractions(@, v.cleanupInteractions) ELSE @,
                     !.cleanupInteractions = NoCleanup,
                     !.container = <<>>],
                 freshGrid(v.gridListeners), getConfig(config, now), data,
                 colorSchemes, dateFormat, now)

\* refresh()
refresh(v, connected, config, data, colorSchemes, dateFormat, now) ==
    IF ~connected THEN v
    ELSE render(v, config, data, colorSchemes, dateFormat, now)

\* refreshAllViews(): views is activeViews, of the one view or empty.
refreshAllViews(views, v, connected, config, data, colorSchemes, dateFormat, now) ==
    IF views = <<>> THEN v
    ELSE refresh(v, connected, config, data, colorSchemes, dateFormat, now)

-----------------------------------------------------------------------------
(* prepareSchemeForSave on bounded names                                   *)

MaxNameLen == 3

NameAlphabet == {"a", "B", "1", "-", " ", "e_acute", "KELVIN"}

RECURSIVE StringsUpTo(_, _)
StringsUpTo(alphabet, n) ==
    IF n = 0 THEN {<<>>}
    ELSE LET shorter == StringsUpTo(alphabet, n - 1)
         IN  shorter \cup {Append(s, c) : s \in shorter, c \in alphabet}

\* Names of tests/settings-utils.test.ts, next to every short name.
ExampleNames ==
    { <<"H", "e", "l", "l", "o", " ", "W", "o", "r", "l", "d">>,
      <<"H", "e", "l", "l", "o", "-", "-", "-", "W", "o", "r", "l", "d">>,
      <<"S", "c", "h", "e", "m", "e", " ", "#", "1">>,
      <<"s", "c", "h", "e", "m", "e">>,
      <<"S", "c", "h", "e", "m", "e">>,
      <<"C", "a", "f", "e_acute">>,
      <<" ", "!", "!", "!", " ">>,
      <<"\t", "\n">> }

SlugNames == StringsUpTo(NameAlphabet, MaxNameLen) \cup ExampleNames

ExistingId == <<"m", "y", "-", "i", "d">>

SlugSchemes ==
    [id : {<<>>, ExistingId}, name : SlugNames, zeroColor : {"#ffffff"},
     maxColor : {"#000000"}, isDefault : BOOLEAN]

InitSlug ==
    /\ slugIn \in [scheme : SlugSchemes, isNew : BOOLEAN]
    /\ slugOut = <<>>

SlugIdle ==
    /\ slugIn = [scheme |-> [id |-> <<>>, name |-> <<>>, zeroColor |-> "#ffffff",
                             maxColor |-> "#000000", isDefault |-> FALSE],
                 isNew |-> FALSE]
    /\ slugOut = <<>>

PrepareSchemeForSave ==
    /\ slugOut = <<>>
    /\ slugOut' = <<prepareSchemeForSave(slugIn.scheme, slugIn.isNew)>>
    /\ UNCHANGED slugIn

-----------------------------------------------------------------------------
(* processData on bounded entry lists                                      *)

MaxEntries == 3

Text_2024_01_01 == <<"2", "0", "2", "4", "-", "0", "1", "-", "0", "1">>

Text_2024_02_30 == <<"2", "0", "2", "4", "-", "0", "2", "-", "3", "0">>

Text_2024_03_01 == <<"2", "0", "2", "4", "-", "0", "3", "-", "0", "1">>

Text_notes == <<"n", "o", "t", "e", "s">>

\* A note: its file and its two properties.
Note(path, basename, dateValue, value) ==
    [file |-> [path |-> path, basename |-> basename],
     props |-> [date |-> dateValue, value |-> value]]

\* Notes of 2024-01-01, named and dated so.
NotesOfJan1 ==
    { Note("a-null", Text_2024_01_01, StringValue(Text_2024_01_01), NullValue),
      Note("a-true", Text_2024_01_01, StringValue(Text_2024_01_01), BooleanValue(TRUE)),
      Note("a-no", Text_2024_01_01, StringValue(Text_2024_01_01),
           StringValue(<<"N", "o">>)),
      Note("a-0", Text_2024_01_01, StringValue(Text_2024_01_01), NumberValue(<<"0">>)),
      Note("a-3", Text_2024_01_01, StringValue(Text_2024_01_01),
           StringValue(<<" ", "3", " ">>)),
      Note("a-5", Text_2024_01_01, StringValue(Text_2024_01_01), NumberValue(<<"5">>)),
      Note("a-minus2", Text_2024_01_01, StringValue(Text_2024_01_01),
           NumberValue(<<"-", "2">>)) }

\* Notes named and dated 2024-02-30: no calendar day for the strict file name
\* parser, 2024-03-01 for the date constructor behind parseISODateString.
NotesOfFeb30 ==
    { Note("c-null", Text_2024_02_30, StringValue(Text_2024_02_30), JsNull),
      Note("c-5", Text_2024_02_30, StringValue(Text_2024_02_30), NumberValue(<<"5">>)) }

\* A note without a date in the name or in the property.
NotesUndated ==
    { Note("n-true", Text_notes, StringValue(<<"s", "o", "o", "n">>), BooleanValue(TRUE)) }

DataNotes == NotesOfJan1 \cup NotesOfFeb30 \cup NotesUndated

RECURSIVE ListsUpTo(_, _)
ListsUpTo(S, n) ==
    IF n = 0 THEN {<<>>}
    ELSE LET shorter == ListsUpTo(S, n - 1)
         IN  shorter \cup {Append(l, x) : l \in shorter, x \in S}

InitData ==
    /\ pdArgs \in [entries : ListsUpTo(DataNotes, MaxEntries),
                   dateProperty : {NoProperty, "date"},
                   dateFormat : {DefaultDateFormat},
                   valueProperty : {"value"}]
    /\ pdIdx = 1
    /\ pd = processDataStart
    /\ pdOut = <<>>

DataIdle ==
    /\ pdArgs = [entries |-> <<>>, dateProperty |-> NoProperty,
                 dateFormat |-> DefaultDateFormat, valueProperty |-> "value"]
    /\ pdIdx = 1
    /\ pd = processDataStart
    /\ pdOut = <<>>

\* One iteration of the for loop.
ProcessDataEntry ==
    /\ pdOut = <<>>
    /\ pdIdx <= Len(pdArgs.entries)
    /\ pd' = processDataEntry(pd, pdArgs.entries[pdIdx], pdArgs.dateProperty,
                              pdArgs.dateFormat, pdArgs.valueProperty)
    /\ pdIdx' = pdIdx + 1
    /\ UNCHANGED <<pdArgs, pdOut>>

\* The end of the loop and the return.
ProcessDataReturn ==
    /\ pdOut = <<>>
    /\ pdIdx > Len(pdArgs.entries)
    /\ pdOut' = <<processDataReturn(pd)>>
    /\ UNCHANGED <<pdArgs, pdIdx, pd>>

\* Notes of 2024-01-01 whose value is a list, truthy or not, and a second
\* note of the value 5.
NotesOfOtherKind ==
    { Note("a-list", Text_2024_01_01, StringValue(Text_2024_01_01),
           OtherValue(<<"x">>, TRUE)),
      Note("a-empty-list", Text_2024_01_01, StringValue(Text_2024_01_01),
           OtherValue(<<>>, FALSE)),
      Note("b-5", Text_2024_01_01, StringValue(Text_2024_01_01), StringValue(<<"5">>)) }

\* The notes of the calls whose entries are taken in every order: a null, a
\* boolean, numbers that tie, values of another kind, a note dated by its
\* property only and a note without a date.
MixedNotes ==
    NotesOfOtherKind \cup NotesUndated
        \cup {n \in NotesOfJan1 \cup NotesOfFeb30 :
                 n.file.path \in {"a-true", "a-5", "a-minus2", "c-5"}}

InitDataMixed ==
    /\ pdArgs \in [entries : ListsUpTo(MixedNotes, MaxEntries),
                   dateProperty : {NoProperty, "date"},
                   dateFormat : {DefaultDateFormat},
                   valueProperty : {"value"}]
    /\ pdIdx = 1
    /\ pd = processDataStart
    /\ pdOut = <<>>

-----------------------------------------------------------------------------
(* settings/HeatmapSettingTab.ts, settings/EditSchemeModal.ts              *)

\* The current day and hour (new Date()).
Now == DateAt(daysFromCivil(2026, 11, 3), 9)

\* The elements of the array settings.colorSchemes refers to.
ColorSchemes == colorSchemesOf(defaultColorSchemes, settings)

\* No modal is open.
ClosedModal ==
    [open |-> FALSE, isNew |-> FALSE, error |-> FALSE,
     scheme |-> ColorSchemeItem(<<>>, <<>>, "undefined", "undefined", FALSE)]

\* The scheme openAddSchemeModal hands to the modal: the spread of
\* DEFAULT_COLOR_SCHEMES[0], which is undefined when the array is empty.
newSchemeOf(defaults) ==
    ColorSchemeItem(<<>>, <<>>,
                    IF Len(defaults) > 0 THEN defaults[1].zeroColor ELSE "undefined",
                    IF Len(defaults) > 0 THEN defaults[1].maxColor ELSE "undefined",
                    FALSE)

\* getSchemeIndex: findIndex, with indices from 1 and 0 for "not found"
\* (the code's indices are from 0, with -1).
getSchemeIndex(colorSchemes, schemeId) ==
    LET found == {i \in 1..Len(colorSchemes) : colorSchemes[i].id = schemeId}
    IN  IF found = {} THEN 0 ELSE CHOOSE i \in found : \A j \in found : i <= j

\* updateScheme: the elements after colorSchemes[index] = updatedScheme.
updateScheme(colorSchemes, schemeId, updatedScheme) ==
    LET index == getSchemeIndex(colorSchemes, schemeId)
    IN  IF index # 0 THEN [colorSchemes EXCEPT ![index] = updatedScheme] ELSE colorSchemes

\* removeSchemeFromSettings: the elements after splice(index, 1).
removeSchemeFromSettings(colorSchemes, schemeId) ==
    LET index == getSchemeIndex(colorSchemes, schemeId)
    IN  IF index # 0
        THEN SubSeq(colorSchemes, 1, index - 1)
                 \o SubSeq(colorSchemes, index + 1, Len(colorSchemes))
        ELSE colorSchemes

\* ensureAtLeastOneScheme: colorSchemes = [...DEFAULT_COLOR_SCHEMES], a new
\* array with the elements DEFAULT_COLOR_SCHEMES holds now.
ensureAtLeastOneScheme(defaults, s) ==
    IF Len(colorSchemesOf(defaults, s)) = 0
    THEN [s EXCEPT !.aliased = FALSE, !.own = defaults]
    ELSE s

\* deleteScheme up to the save: [defaults, settings].
deleteScheme(defaults, s, scheme) ==
    LET removed == assignInPlace(defaults, s,
                       removeSchemeFromSettings(colorSchemesOf(defaults, s), scheme.id))
    IN  [defaults |-> removed.defaults,
         settings |-> ensureAtLeastOneScheme(removed.defaults, removed.settings)]

\* The onSave callbacks of the two modals: push, or updateScheme.
onSave(defaults, s, isNew, schemeId, result) ==
    assignInPlace(defaults, s,
        IF isNew THEN Append(colorSchemesOf(defaults, s), result)
        ELSE updateScheme(colorSchemesOf(defaults, s), schemeId, result))

\* The Add button is taken to be out of reach once the list is this long.
MaxSchemes == 5

OtherDateFormat == <<"D", "D", ".", "M", "M", ".", "Y", "Y", "Y", "Y">>

\* What the user types into the name field.
ModalNames == { <<" ">>, <<"S", "e", "a">> }

\* What the user types into the date format field.
DateFormatInputs == { <<>>, DefaultDateFormat, OtherDateFormat }

\* saveSettings and refreshAllViews with the settings a handler has made.
SaveAndRefresh(defaults, s) ==
    /\ defaultColorSchemes' = defaults
    /\ settings' = s
    /\ savedData' = saveSettings(defaults, s)
    /\ view' = refreshAllViews(activeViews, view, isConnected, hostConfig, hostData,
                               colorSchemesOf(defaults, s), s.dateFormat, Now)
    /\ UNCHANGED <<hostConfig, hostData, isConnected, activeViews>>

\* onload: loadSettings()
LoadSettings ==
    /\ ~settings.loaded
    /\ settings' = loadSettings(savedData)
    /\ UNCHANGED <<defaultColorSchemes, savedData, modal, viewVars>>

\* The date format field's onChange.
SetDateFormat ==
    /\ settings.loaded /\ ~modal.open
    /\ \E value \in DateFormatInputs :
          SaveAndRefresh(defaultColorSchemes,
                         [settings EXCEPT !.dateFormat =
                              IF value # <<>> THEN value ELSE DefaultDateFormat])
    /\ UNCHANGED modal

OpenAddSchemeModal ==
    /\ settings.loaded /\ ~modal.open
    /\ Len(ColorSchemes) < MaxSchemes
    /\ modal' = [open |-> TRUE, isNew |-> TRUE, error |-> FALSE,
                 scheme |-> newSchemeOf(defaultColorSchemes)]
    /\ UNCHANGED <<defaultColorSchemes, settings, savedData, viewVars>>

OpenEditSchemeModal ==
    /\ settings.loaded /\ ~modal.open
    /\ \E i \in 1..Len(ColorSchemes) :
          modal' = [open |-> TRUE, isNew |-> FALSE, error |-> FALSE,
                    scheme |-> ColorSchemes[i]]
    /\ UNCHANGED <<defaultColorSchemes, settings, savedData, viewVars>>

\* The name field's onChange.
ModalSetName ==
    /\ modal.open
    /\ \E value \in ModalNames : modal' = [modal EXCEPT !.scheme.name = value]
    /\ UNCHANGED <<defaultColorSchemes, settings, savedData, viewVars>>

\* handleSave with a name validateScheme rejects.
ModalSaveRejected ==
    /\ modal.open
    /\ ~validateScheme(modal.scheme)
    /\ modal' = [modal EXCEPT !.error = TRUE]
    /\ UNCHANGED <<defaultColorSchemes, settings, savedData, viewVars>>

\* handleSave with a valid scheme: onSave, saveAndRefresh, close.
ModalSave ==
    /\ modal.open
    /\ validateScheme(modal.scheme)
    /\ LET result == prepareSchemeForSave(modal.scheme, modal.isNew)
           after  == onSave(defaultColorSchemes, settings, modal.isNew,
                            modal.scheme.id, result)
       IN  SaveAndRefresh(after.defaults, after.settings)
    /\ modal' = ClosedModal

\* The Cancel button.
ModalClose ==
    /\ modal.open
    /\ modal' = ClosedModal
    /\ UNCHANGED <<defaultColorSchemes, settings, savedData, viewVars>>

\* The trash button of the i-th scheme shown.
DeleteScheme(i) ==
    /\ settings.loaded /\ ~modal.open
    /\ i \in 1..Len(ColorSchemes)
    /\ LET after == deleteScheme(defaultColorSchemes, settings, ColorSchemes[i])
       IN  SaveAndRefresh(after.defaults, after.settings)
    /\ UNCHANGED modal

DeleteAnyScheme == \E i \in 1..MaxSchemes : DeleteScheme(i)

\* What loadData may return at start: nothing, an empty list and an empty
\* format, one scheme of the user, the five built-in ones.
SavedDataAtStart ==
    { <<>>,
      <<[colorSchemes |-> << <<>> >>, dateFormat |-> << <<>> >>]>>,
      <<[colorSchemes |-> << <<ColorSchemeItem(<<"s", "e", "a">>, <<"S", "e", "a">>,
                                               "#ffffff", "#0000ff", FALSE)>> >>,
         dateFormat |-> <<OtherDateFormat>>]>>,
      <<[colorSchemes |-> <<DEFAULT_COLOR_SCHEMES>>, dateFormat |-> <<DefaultDateFormat>>]>> }

InitSettings ==
    /\ defaultColorSchemes = DEFAULT_COLOR_SCHEMES
    /\ settings = UnloadedSettings
    /\ savedData \in SavedDataAtStart
    /\ modal = ClosedModal

-----------------------------------------------------------------------------
(* The view under the host's calls                                         *)

Text_2024_1_1 == <<"2", "0", "2", "4", "-", "1", "-", "1">>

Text_2024_03_01_slashes == <<"2", "0", "2", "4", "/", "0", "3", "/", "0", "1">>

Text_2020_01_01 == <<"2", "0", "2", "0", "-", "0", "1", "-", "0", "1">>

Text_2021_01_01 == <<"2", "0", "2", "1", "-", "0", "1", "-", "0", "1">>

Text_2024_12_31 == <<"2", "0", "2", "4", "-", "1", "2", "-", "3", "1">>

Text_2025_01_01 == <<"2", "0", "2", "5", "-", "0", "1", "-", "0", "1">>

Text_2025_12_31 == <<"2", "0", "2", "5", "-", "1", "2", "-", "3", "1">>

Text_2026_01_01 == <<"2", "0", "2", "6", "-", "0", "1", "-", "0", "1">>

\* The options of a view that shows the value property by the date property
\* from 2024-01-01 to 2024-03-01.
BaseConfig ==
    [valueProperty |-> "value", dateProperty |-> "date",
     startDate |-> Text_2024_01_01, endDate |-> Text_2024_03_01,
     colorScheme |-> <<>>, minValue |-> <<>>, maxValue |-> <<>>]

\* The host's view configurations.
ViewConfigs ==
    { BaseConfig,
      [BaseConfig EXCEPT !.valueProperty = NoProperty],
      [BaseConfig EXCEPT !.valueProperty = NoProperty, !.startDate = Text_2024_1_1],
      [BaseConfig EXCEPT !.dateProperty = NoProperty],
      [BaseConfig EXCEPT !.startDate = Text_2024_1_1],
      [BaseConfig EXCEPT !.endDate = Text_2024_03_01_slashes],
      [BaseConfig EXCEPT !.endDate = Text_2024_01_01],
      [BaseConfig EXCEPT !.startDate = Text_2024_03_01, !.endDate = Text_2024_01_01],
      [BaseConfig EXCEPT !.startDate = Text_2024_02_30],
      [BaseConfig EXCEPT !.startDate = <<>>, !.endDate = <<>>],
      [BaseConfig EXCEPT !.startDate = Text_2021_01_01, !.endDate = Text_2025_12_31],
      [BaseConfig EXCEPT !.startDate = Text_2020_01_01, !.endDate = Text_2024_12_31],
      [BaseConfig EXCEPT !.startDate = Text_2020_01_01, !.endDate = Text_2025_01_01],
      [BaseConfig EXCEPT !.startDate = Text_2020_01_01, !.endDate = Text_2026_01_01],
      [BaseConfig EXCEPT !.colorScheme = <<"p", "u", "r", "p", "l", "e">>,
                         !.minValue = <<"2">>, !.maxValue = <<"x">>] }

NoteAt(path) == CHOOSE n \in DataNotes : n.file.path = path

\* this.data: not set; set without a data array; the entries of the query.
HostData ==
    { <<>>,
      <<[data |-> <<>>]>>,
      <<[data |-> << <<>> >>]>>,
      <<[data |-> << <<NoteAt("n-true")>> >>]>>,
      <<[data |-> << <<NoteAt("a-null")>> >>]>>,
      <<[data |-> << <<NoteAt("a-5")>> >>]>>,
      <<[data |-> << <<NoteAt("a-true"), NoteAt("a-5")>> >>]>>,
      <<[data |-> << <<NoteAt("a-3"), NoteAt("c-5")>> >>]>> }

\* The view after its constructor: an empty container, no disposer, no data.
NewView ==
    [container |-> <<>>, cleanupInteractions |-> NoCleanup, processedData |-> <<>>,
     gridListeners |-> <<>>, renderOutcome |-> "none"]

InitView ==
    /\ hostConfig \in ViewConfigs
    /\ hostData \in {<<>>}
    /\ isConnected \in BOOLEAN
    /\ activeViews = <<"view">>
    /\ view = NewView

\* No view has been constructed.
ViewIdle ==
    /\ hostConfig = BaseConfig
    /\ hostData = <<>>
    /\ isConnected = FALSE
    /\ activeViews = <<>>
    /\ view = NewView

\* Settings the settings tab can have left when the view is made: the loaded
\* defaults, and the empty list that is left when the five schemes of the
\* aliased default array have been deleted.
SettingsOfView ==
    { [defaults |-> DEFAULT_COLOR_SCHEMES, settings |-> loadSettings(<<>>)],
      [defaults |-> <<>>,
       settings |-> [loadSettings(<<>>) EXCEPT !.aliased = FALSE]] }

InitSettingsOfView ==
    /\ \E s \in SettingsOfView :
          /\ defaultColorSchemes = s.defaults
          /\ settings = s.settings
          /\ savedData = saveSettings(s.defaults, s.settings)
    /\ modal = ClosedModal

SettingsIdle ==
    /\ defaultColorSchemes = DEFAULT_COLOR_SCHEMES
    /\ settings = loadSettings(<<>>)
    /\ savedData = <<>>
    /\ modal = ClosedModal

\* The host has set this.config or this.data and calls onDataUpdated().
OnDataUpdated ==
    /\ activeViews # <<>>
    /\ \E config \in ViewConfigs, data \in HostData :
          /\ config = hostConfig \/ data = hostData
          /\ hostConfig' = config
          /\ hostData' = data
          /\ view' = render(view, config, data, ColorSchemes, settings.dateFormat, Now)
    /\ UNCHANGED <<isConnected, activeViews>>

\* The plugin calls refreshAllViews().
RefreshAllViews ==
    /\ view' = refreshAllViews(activeViews, view, isConnected, hostConfig, hostData,
                               ColorSchemes, settings.dateFormat, Now)
    /\ UNCHANGED <<hostConfig, hostData, isConnected, activeViews>>

\* The host puts the container into the document, or takes it out.
HostAttach ==
    /\ ~isConnected
    /\ isConnected' = TRUE
    /\ UNCHANGED <<hostConfig, hostData, activeViews, view>>

HostDetach ==
    /\ isConnected
    /\ isConnected' = FALSE
    /\ UNCHANGED <<hostConfig, hostData, activeViews, view>>

-----------------------------------------------------------------------------
(* utils/date.ts: ranges, weeks and month labels                           *)

\* a <= b on two Date objects: the comparison of their time values, false
\* when one of them is Invalid Date.
dateLessEq(a, b) == a.kind = "date" /\ b.kind = "date" /\ getTime(a) <= getTime(b)

\* date.setDate(date.getDate() + 1): the next local day at the same hour.
setDateNextDay(date) == IF date.kind = "date" THEN DateAt(date.day + 1, date.hour) ELSE date

\* generateDateRange without the two normalizeDate calls.
generateDateRangeStart_AsGiven(start, end) ==
    [pc |-> "generateDateRange", dates |-> <<>>, current |-> start, endNormalized |-> end]

\* generateDateRange: the locals before the loop.
generateDateRangeStart(start, end) ==
    [pc |-> "generateDateRange", dates |-> <<>>,
     current |-> normalizeDate(start), endNormalized |-> normalizeDate(end)]

\* One iteration of generateDateRange's while loop.
generateDateRangeStep(l) ==
    [l EXCEPT !.dates = Append(l.dates, formatDateISO(l.current)),
              !.current = setDateNextDay(l.current)]

getDayOfWeek(date, weekStart) ==
    LET day == getDay(date)
    IN  IF weekStart = 0 THEN day
        ELSE IF day = 0 THEN 6 ELSE day - 1

\* getWeekNumber; Math.floor(diffMs / (1000 * 60 * 60 * 24)) is the floor of
\* the hours by 24.
getWeekNumber(date, rangeStart, weekStart) ==
    LET d              == normalizeDate(date)
        start          == normalizeDate(rangeStart)
        diffMs         == getTime(d) - getTime(start)
        diffDays       == diffMs \div HoursPerDay
        startDayOfWeek == getDayOfWeek(start, weekStart)
    IN  (diffDays + startDayOfWeek) \div 7 + 1

\* getMonthNames(): t("dates.monthShort.<i>") in English.
getMonthNames ==
    <<"Jan", "Feb", "Mar", "Apr", "May", "Jun", "Jul", "Aug", "Sep", "Oct", "Nov", "Dec">>

\* The createLabel and updateEnd callbacks of generateMonthLabels.
createLabel(name, start, end) == [name |-> name, startColumn |-> start, endColumn |-> end]

\* updateEnd that leaves the label as it is.
updateEnd_Keep(label, end) == label

updateEnd(label, end) == [label EXCEPT !.endColumn = end]

\* generateMonthLabelsBase: the locals before the loop over the days.
\* weekToMonths is a function from the weeks seen to their sets of months.
generateMonthLabelsStart(rangeStart, rangeEnd) ==
    [pc |-> "monthLabelsDays", weekToMonths |-> <<>>,
     current |-> normalizeDate(rangeStart), end |-> normalizeDate(rangeEnd)]

\* weekToMonths after monthSet.add(month) on the set of the week.
addMonth(weekToMonths, week, month) ==
    [w \in DOMAIN weekToMonths \cup {week} |->
        IF w = week
        THEN (IF w \in DOMAIN weekToMonths THEN weekToMonths[w] ELSE {}) \cup {month}
        ELSE weekToMonths[w]]

\* One iteration of the loop over the days.
monthLabelsDayStep(l, rangeStart, weekStart) ==
    [l EXCEPT !.weekToMonths = addMonth(l.weekToMonths,
                                        getWeekNumber(l.current, rangeStart, weekStart),
                                        getMonth(l.current)),
              !.current = setDateNextDay(l.current)]

\* The locals before the loop over the weeks. currentLabel is the label
\* pushed last, so it is kept as the last element of labels (none: null).
monthLabelsWeeksStart(l, rangeStart, weekStart) ==
    [pc |-> "monthLabelsWeeks", weekToMonths |-> l.weekToMonths,
     labels |-> <<>>, totalWeeks |-> getWeekNumber(l.end, rangeStart, weekStart),
     currentMonth |-> -1, week |-> 1]

\* monthsArray[monthsArray.length - 1] of the sorted months: the greatest
\* month index of the week.
primaryMonthOf(monthsInWeek) == CHOOSE m \in monthsInWeek : \A n \in monthsInWeek : n <= m

\* labels with the last label's end set (updateEnd(currentLabel, end)).
updateLastEnd(labels, end) ==
    IF labels = <<>> THEN labels
    ELSE [labels EXCEPT ![Len(labels)] = updateEnd(labels[Len(labels)], end)]

\* One iteration of the loop over the weeks.
monthLabelsWeekStep(l) ==
    IF l.week \notin DOMAIN l.weekToMonths THEN [l EXCEPT !.week = l.week + 1]
    ELSE LET primaryMonth == primaryMonthOf(l.weekToMonths[l.week])
         IN  IF primaryMonth # l.currentMonth
             THEN [l EXCEPT !.labels = Append(updateLastEnd(l.labels, l.week),
                                              createLabel(getMonthNames[primaryMonth + 1],
                                                          l.week, l.totalWeeks + 1)),
                            !.currentMonth = primaryMonth,
                            !.week = l.week + 1]
             ELSE [l EXCEPT !.week = l.week + 1]

\* What generateMonthLabelsBase returns after the loop over the weeks.
monthLabelsReturn(l) == updateLastEnd(l.labels, l.totalWeeks + 1)

-----------------------------------------------------------------------------
(* utils/color.ts: calculateIntensityNumeric                               *)

\* A number of the interval 0..1 as the quotient the code computes.
Quotient(num, den) == [num |-> num, den |-> den]

\* calculateIntensityNumeric without the test of max === min.
calculateIntensityNumeric_NoDegenerate(value, min, max) ==
    IF value <= min THEN Quotient(0, 1)
    ELSE IF value >= max THEN Quotient(1, 1)
    ELSE Quotient(value - min, max - min)

\* NaN: the quotient 0 / 0.
NaN == Quotient(0, 0)

\* (value - min) / (max - min) for min < value < max: the value is finite;
\* with min = -Infinity it is Infinity / Infinity, which is NaN; with a
\* finite min and max = Infinity it is a number / Infinity, which is 0.
divideDifferences(value, min, max) ==
    IF min = 0 - Infinity THEN NaN
    ELSE IF max = Infinity THEN Quotient(0, 1)
    ELSE Quotient(value - min, max - min)

calculateIntensityNumeric(value, min, max) ==
    IF max = min THEN Quotient(1, 1)
    ELSE IF value <= min THEN Quotient(0, 1)
    ELSE IF value >= max THEN Quotient(1, 1)
    ELSE divideDifferences(value, min, max)

\* calculateIntensityBoolean(value)
calculateIntensityBoolean(value) == IF value THEN Quotient(1, 1) ELSE Quotient(0, 1)

\* Math.ceil(num / den) for a positive den
mathCeil(num, den) == 0 - ((0 - num) \div den)

\* getIntensityLevel without the clamp Math.min(4, ...).
getIntensityLevel_NoClamp(intensity) ==
    IF intensity.num <= 0 THEN 0
    ELSE mathCeil(intensity.num * 4, intensity.den)

\* getIntensityLevel(intensity), the intensity being a quotient.
getIntensityLevel(intensity) ==
    IF intensity.num <= 0 THEN 0
    ELSE IF mathCeil(intensity.num * 4, intensity.den) > 4 THEN 4
    ELSE mathCeil(intensity.num * 4, intensity.den)

-----------------------------------------------------------------------------
(* view/renderer.tsx: the cells of the grid; view/interactions.ts: a click *)

\* generateDateRange(start, end): the loop run to its end.
RECURSIVE generateDateRangeLoop(_)
generateDateRangeLoop(l) ==
    IF dateLessEq(l.current, l.endNormalized)
    THEN generateDateRangeLoop(generateDateRangeStep(l))
    ELSE l.dates

generateDateRange(start, end) == generateDateRangeLoop(generateDateRangeStart(start, end))

\* entries.get(dateStr): <<>> is undefined.
entriesGet(entries, dateStr) ==
    IF dateStr \in DOMAIN entries THEN <<entries[dateStr]>> ELSE <<>>

\* getCellState with the intensity of a filled cell taken as 1.
getCellState_Full(entry, stats) ==
    IF entry = <<>> THEN [type |-> "empty"]
    ELSE IF entry[1].value.isNull THEN [type |-> "zero", note |-> entry[1].note]
    ELSE [type |-> "filled", note |-> entry[1].note, intensity |-> Quotient(1, 1)]

getCellState(entry, stats) ==
    IF entry = <<>> THEN [type |-> "empty"]
    ELSE IF entry[1].value.isNull THEN [type |-> "zero", note |-> entry[1].note]
    ELSE [type |-> "filled", note |-> entry[1].note,
          intensity |->
              IF stats.valueType = "number"
              THEN calculateIntensityNumeric(entry[1].value.v, stats.min, stats.max)
              ELSE calculateIntensityBoolean(entry[1].value.v > 0)]

\* Cell without the data-note-path attribute.
Cell_NoPath(date, state, row, column, entry) ==
    [class |-> "heatmap-cell", date |-> date, state |-> state, gridRow |-> row,
     gridColumn |-> column,
     displayValue |-> IF entry # <<>> THEN <<entry[1].displayValue>> ELSE <<>>,
     notePath |-> <<>>]

\* Cell: the element with its grid position and its data attributes; an
\* attribute that is not set is <<>>.
Cell(date, state, row, column, entry) ==
    [class |-> "heatmap-cell", date |-> date, state |-> state, gridRow |-> row,
     gridColumn |-> column,
     displayValue |-> IF entry # <<>> THEN <<entry[1].displayValue>> ELSE <<>>,
     notePath |-> IF state.type # "empty" THEN <<state.note.path>> ELSE <<>>]

\* The cell of one date of Cells, <<>> for a date that is skipped.
cellOfDate(dateStr, dateRange, entries, stats, weekStart) ==
    IF isNaNDate(parseIsoOrLegacy(dateStr)) THEN <<>>
    ELSE <<Cell(dateStr,
                getCellState(entriesGet(entries, dateStr), stats),
                getDayOfWeek(parseIsoOrLegacy(dateStr), weekStart) + 1,
                getWeekNumber(parseIsoOrLegacy(dateStr), dateRange.start, weekStart),
                entriesGet(entries, dateStr))>>

RECURSIVE Cells(_, _, _, _, _)
Cells(allDates, dateRange, entries, stats, weekStart) ==
    IF allDates = <<>> THEN <<>>
    ELSE cellOfDate(Head(allDates), dateRange, entries, stats, weekStart)
             \o Cells(Tail(allDates), dateRange, entries, stats, weekStart)

\* Heatmap: the grid of the cells with its --total-weeks.
Heatmap(data, dateRange, options) ==
    [totalWeeks |-> getWeekNumber(dateRange.end, dateRange.start, options.weekStart),
     cells |-> Cells(generateDateRange(dateRange.start, dateRange.end), dateRange,
                     data.entries, data.stats, options.weekStart)]

\* The targets of a mouse event on the grid: a cell, by its index, or the
\* grid outside every cell (0).
OutsideCells == 0

\* getCell(event): event.target.closest(".heatmap-cell"), <<>> for null.
getCell(grid, target) == IF target = OutsideCells THEN <<>> ELSE <<grid.cells[target]>>

\* clickHandler: the link texts app.workspace.openLinkText is called with.
clickHandler(grid, target) ==
    IF getCell(grid, target) = <<>> THEN <<>>
    ELSE IF getCell(grid, target)[1].notePath \in {<<>>, <<"">>} THEN <<>>
    ELSE <<getCell(grid, target)[1].notePath[1]>>

\* render, lines 147-149: the configured minValue and maxValue replace the
\* min and the max of the stats.
applyMinMaxValue(data, minValue, maxValue) ==
    [data EXCEPT !.stats.min = IF minValue.isNull THEN @ ELSE minValue.v,
                 !.stats.max = IF maxValue.isNull THEN @ ELSE maxValue.v]

-----------------------------------------------------------------------------
(* The helpers of utils/date.ts and utils/color.ts under bounded calls     *)

MaxSpanDays == 10

MaxYears == 8

MaxValue == 3

\* The text YYYY-MM-DD of three numbers, whether or not it names a day.
IsoText(y, m, d) ==
    LET yy == NatToString(y)
    IN  SubSeq(<<"0", "0", "0">>, 1, 4 - Len(yy)) \o yy \o <<"-">> \o padStart2(NatToString(m))
            \o <<"-">> \o padStart2(NatToString(d))

\* Texts of the shape YYYY-MM-DD: early years, a leap year, months and days
\* inside and outside the calendar.
ShapedTexts ==
    {IsoText(y, m, d) : y \in {50, 999, 1999, 2023, 2024}, m \in {0, 1, 2, 12, 13},
                        d \in {0, 1, 29, 30, 31, 32}}

\* Texts of other shapes, among them the two of the test suite.
OtherTexts ==
    { <<>>,
      <<"2", "0", "2", "4", "/", "0", "1", "/", "0", "1">>,
      <<"J", "a", "n", " ", "1", " ", "2", "0", "2", "4">>,
      <<"2", "0", "2", "4", "-", "1", "-", "1">>,
      <<"2", "0", "2", "4", "-", "0", "1", "-", "0", "1", "T">>,
      <<"2", "0", "2", "4", "0", "1", "0", "1">>,
      <<" ">> \o IsoText(2024, 1, 1) \o <<" ">>,
      <<"\t">> \o IsoText(2024, 1, 1),
      <<"x">> \o IsoText(2024, 1, 1) }

ParseCalls == {[fn |-> "parseISODateString", dateStr |-> s] : s \in ShapedTexts \cup OtherTexts}

\* First days of the ranges: before a turn of the year, before a leap day,
\* before the clocks go forward and before they go back.
RangeStartDays ==
    { daysFromCivil(2023, 12, 25), daysFromCivil(2024, 2, 26), daysFromCivil(2024, 3, 28),
      daysFromCivil(2024, 10, 24), daysFromCivil(2025, 12, 28) }

\* The hours of the day a Date argument is given at.
CallHours == {0, 9}

DateRangeCalls ==
    {[fn |-> "generateDateRange", start |-> DateAt(a, h), end |-> DateAt(a + k, g)] :
        a \in RangeStartDays, h \in CallHours, k \in (-2)..MaxSpanDays, g \in CallHours}
    \cup {[fn |-> "generateDateRange", start |-> InvalidDate,
           end |-> ValidDate(daysFromCivil(2024, 1, 1))]}

WeekStarts == {0, 1}

WeekNumberCalls ==
    {[fn |-> "getWeekNumber", date |-> DateAt(a + k, h), rangeStart |-> ValidDate(a),
      weekStart |-> ws] :
        a \in RangeStartDays, k \in 0..MaxSpanDays, h \in CallHours, ws \in WeekStarts}

\* The calendar years of the month labels: every weekday is the first of
\* January of one of them.
LabelYears == 2019..(2018 + MaxYears)

MonthLabelCalls ==
    {[fn |-> "generateMonthLabels", rangeStart |-> ValidDate(a), rangeEnd |-> ValidDate(a + k),
      weekStart |-> ws] : a \in RangeStartDays, k \in 0..MaxSpanDays, ws \in WeekStarts}
    \cup {[fn |-> "generateMonthLabels", rangeStart |-> newDate(y, 0, 1),
           rangeEnd |-> newDate(y, 11, 31), weekStart |-> ws] :
             y \in LabelYears, ws \in WeekStarts}

\* Keys of the entries map: the two of the spec's scenario, one after today,
\* one the permissive parser reads and one nothing reads.
EntryKeys ==
    { IsoText(2024, 3, 5), IsoText(2024, 1, 10), IsoText(2027, 1, 1),
      <<"2", "0", "2", "4", "/", "0", "1", "/", "0", "2">>, Text_notes }

EntryMaps == {[k \in keys |-> TRUE] : keys \in {ks \in SUBSET EntryKeys : Cardinality(ks) <= 2}}

StartTexts ==
    { <<>>, IsoText(2024, 2, 1), IsoText(2025, 1, 1), IsoText(2024, 2, 30), IsoText(50, 1, 1),
      <<"2", "0", "2", "4", "/", "0", "2", "/", "0", "1">>, <<" ">> \o IsoText(2024, 2, 1) }

EndTexts ==
    { <<>>, IsoText(2024, 1, 1), IsoText(2024, 12, 31), IsoText(2024, 2, 30), IsoText(50, 1, 1),
      <<"2", "0", "2", "4", "/", "1", "2", "/", "3", "1">> }

CalculateDateRangeCalls ==
    {[fn |-> "calculateDateRange", entries |-> e, startDate |-> s, endDate |-> t] :
        e \in EntryMaps, s \in StartTexts, t \in EndTexts}

IntensityValues == (-MaxValue)..MaxValue

IntensityCalls ==
    {[fn |-> "calculateIntensityNumeric", value |-> v, min |-> lo, max |-> hi] :
        v \in IntensityValues, lo \in IntensityValues, hi \in IntensityValues}

\* The intensities n / d from -1 to 2, 0.25 and 0.26 among them.
MaxLevelDen == 100

LevelIntensities ==
    UNION {{Quotient(n, d) : n \in (0 - d)..(2 * d)} : d \in 1..MaxLevelDen}

IntensityLevelCalls ==
    {[fn |-> "getIntensityLevel", intensity |-> q] : q \in LevelIntensities}

\* A note of the day n, dated by its date property.
NoteOn(path, n, value) ==
    Note(path, formatDateISO(ValidDate(n)), StringValue(formatDateISO(ValidDate(n))), value)

\* What render passes to renderHeatmap for the entries of a query result,
\* the configured minValue and maxValue, a range and a week start.
GridCall(entries, minValue, maxValue, start, end, weekStart) ==
    [fn |-> "renderHeatmap",
     data |-> applyMinMaxValue(processData(entries, "date", DefaultDateFormat, "value"),
                               parseNumericValue(minValue), parseNumericValue(maxValue)),
     minValue |-> minValue, maxValue |-> maxValue,
     dateRange |-> [start |-> ValidDate(start), end |-> ValidDate(end)],
     options |-> [weekStart |-> weekStart]]

\* Grids of every range and week start, with one note on the first day.
LayoutCalls ==
    {GridCall(<<NoteOn("first", a, NumberValue(<<"5">>))>>, <<>>, <<>>, a, a + k, ws) :
        a \in RangeStartDays, k \in 0..MaxSpanDays, ws \in WeekStarts}

\* The first day of the grids whose cells differ in their state.
CellsStartDay == daysFromCivil(2024, 2, 26)

\* Notes of the first three days: numbers, a value that is not set, and a
\* boolean.
CellNotes ==
    { NoteOn("n-2", CellsStartDay, NumberValue(<<"2">>)),
      NoteOn("n-5", CellsStartDay + 1, NumberValue(<<"5">>)),
      NoteOn("n-8", CellsStartDay + 2, NumberValue(<<"8">>)),
      NoteOn("n-unset", CellsStartDay + 2, NullValue),
      NoteOn("n-true", CellsStartDay + 1, BooleanValue(TRUE)) }

\* Texts of the minValue and maxValue options: not set, numbers inside,
\* below and above the values, no number, and the infinities.
MinMaxTexts ==
    { <<>>, <<"0">>, <<"5">>, <<"9">>, <<"a">>,
      InfinityText, <<"-">> \o InfinityText }

\* render goes on to renderHeatmap when the type of the values is supported
\* and there is an entry.
ReachesGrid(entries) ==
    /\ processData(entries, "date", DefaultDateFormat, "value").stats.valueType
           # "unsupported"
    /\ DOMAIN processData(entries, "date", DefaultDateFormat, "value").entries # {}

CellStateCalls ==
    {GridCall(l, lo, hi, CellsStartDay, CellsStartDay + 3, 0) :
        l \in {e \in ListsUpTo(CellNotes, 2) : ReachesGrid(e)},
        lo \in MinMaxTexts, hi \in MinMaxTexts}

GridCalls == LayoutCalls \cup CellStateCalls

UtilCalls ==
    ParseCalls \cup DateRangeCalls \cup WeekNumberCalls \cup MonthLabelCalls
        \cup CalculateDateRangeCalls \cup IntensityCalls \cup IntensityLevelCalls
        \cup GridCalls

InitUtil ==
    /\ timeZone \in TimeZones
    /\ utilCall \in UtilCalls
    /\ utilLocals = [pc |-> "idle"]
    /\ utilOut = <<>>

Called(fn, pc) == utilCall.fn = fn /\ utilLocals.pc = pc /\ utilOut = <<>>

ParseISODateString ==
    /\ Called("parseISODateString", "idle")
    /\ utilOut' = <<parseISODateString(utilCall.dateStr)>>
    /\ UNCHANGED <<timeZone, utilCall, utilLocals>>

\* formatDateISO of the Date that parseISODateString has returned.
FormatDateISO ==
    /\ utilCall.fn = "parseISODateString" /\ utilLocals.pc = "idle"
    /\ utilOut # <<>> /\ utilOut[1].kind = "date"
    /\ utilLocals' = [pc |-> "formatted", text |-> formatDateISO(utilOut[1])]
    /\ UNCHANGED <<timeZone, utilCall, utilOut>>

GenerateDateRangeEnter ==
    /\ Called("generateDateRange", "idle")
    /\ utilLocals' = generateDateRangeStart(utilCall.start, utilCall.end)
    /\ UNCHANGED <<timeZone, utilCall, utilOut>>

GenerateDateRangeStep ==
    /\ Called("generateDateRange", "generateDateRange")
    /\ dateLessEq(utilLocals.current, utilLocals.endNormalized)
    /\ utilLocals' = generateDateRangeStep(utilLocals)
    /\ UNCHANGED <<timeZone, utilCall, utilOut>>

GenerateDateRangeReturn ==
    /\ Called("generateDateRange", "generateDateRange")
    /\ ~dateLessEq(utilLocals.current, utilLocals.endNormalized)
    /\ utilOut' = <<utilLocals.dates>>
    /\ UNCHANGED <<timeZone, utilCall, utilLocals>>

GetWeekNumber ==
    /\ Called("getWeekNumber", "idle")
    /\ utilOut' = <<getWeekNumber(utilCall.date, utilCall.rangeStart, utilCall.weekStart)>>
    /\ UNCHANGED <<timeZone, utilCall, utilLocals>>

GenerateMonthLabelsEnter ==
    /\ Called("generateMonthLabels", "idle")
    /\ utilLocals' = generateMonthLabelsStart(utilCall.rangeStart, utilCall.rangeEnd)
    /\ UNCHANGED <<timeZone, utilCall, utilOut>>

GenerateMonthLabelsDayStep ==
    /\ Called("generateMonthLabels", "monthLabelsDays")
    /\ dateLessEq(utilLocals.current, utilLocals.end)
    /\ utilLocals' = monthLabelsDayStep(utilLocals, utilCall.rangeStart, utilCall.weekStart)
    /\ UNCHANGED <<timeZone, utilCall, utilOut>>

GenerateMonthLabelsWeeksEnter ==
    /\ Called("generateMonthLabels", "monthLabelsDays")
    /\ ~dateLessEq(utilLocals.current, utilLocals.end)
    /\ utilLocals' = monthLabelsWeeksStart(utilLocals, utilCall.rangeStart, utilCall.weekStart)
    /\ UNCHANGED <<timeZone, utilCall, utilOut>>

GenerateMonthLabelsWeekStep ==
    /\ Called("generateMonthLabels", "monthLabelsWeeks")
    /\ utilLocals.week <= utilLocals.totalWeeks
    /\ utilLocals' = monthLabelsWeekStep(utilLocals)
    /\ UNCHANGED <<timeZone, utilCall, utilOut>>

GenerateMonthLabelsReturn ==
    /\ Called("generateMonthLabels", "monthLabelsWeeks")
    /\ utilLocals.week > utilLocals.totalWeeks
    /\ utilOut' = <<monthLabelsReturn(utilLocals)>>
    /\ UNCHANGED <<timeZone, utilCall, utilLocals>>

CalculateDateRange ==
    /\ Called("calculateDateRange", "idle")
    /\ utilOut' = <<calculateDateRange(utilCall.entries, utilCall.startDate,
                                       utilCall.endDate, Now)>>
    /\ UNCHANGED <<timeZone, utilCall, utilLocals>>

CalculateIntensityNumeric ==
    /\ Called("calculateIntensityNumeric", "idle")
    /\ utilOut' = <<calculateIntensityNumeric(utilCall.value, utilCall.min, utilCall.max)>>
    /\ UNCHANGED <<timeZone, utilCall, utilLocals>>

GetIntensityLevel ==
    /\ Called("getIntensityLevel", "idle")
    /\ utilOut' = <<getIntensityLevel(utilCall.intensity)>>
    /\ UNCHANGED <<timeZone, utilCall, utilLocals>>

\* renderHeatmap: the grid is built and put into the document.
RenderHeatmap ==
    /\ Called("renderHeatmap", "idle")
    /\ utilLocals' = [pc |-> "grid",
                      grid |-> Heatmap(utilCall.data, utilCall.dateRange, utilCall.options)]
    /\ UNCHANGED <<timeZone, utilCall, utilOut>>

\* The user clicks on a cell of the grid or on the grid outside the cells:
\* the result is the target with the link texts opened.
ClickGrid ==
    /\ Called("renderHeatmap", "grid")
    /\ \E target \in {OutsideCells} \cup (1..Len(utilLocals.grid.cells)) :
         utilOut' = <<[target |-> target,
                      opened |-> clickHandler(utilLocals.grid, target)]>>
    /\ UNCHANGED <<timeZone, utilCall, utilLocals>>

\* No helper call is under way.
UtilIdle ==
    /\ utilCall = [fn |-> "none"]
    /\ utilLocals = [pc |-> "idle"]
    /\ utilOut = <<>>

-----------------------------------------------------------------------------
(* main.ts: the registry of the views; the settings tab's saves            *)

\* The HeatmapView objects the host can make.
HeatmapViewIds == {"v1", "v2"}

\* this.activeViews.includes(view)
includes(views, id) == \E i \in 1..Len(views) : views[i] = id

\* registerHeatmapView(view): the list after the call.
registerHeatmapView(views, id) == IF ~includes(views, id) THEN Append(views, id) ELSE views

\* unregisterHeatmapView(view): the list after indexOf and splice(i, 1).
unregisterHeatmapView(views, id) ==
    IF ~includes(views, id) THEN views
    ELSE SubSeq(views, 1, (CHOOSE i \in 1..Len(views) :
                              views[i] = id /\ \A j \in 1..(i - 1) : views[j] # id) - 1)
             \o SubSeq(views, (CHOOSE i \in 1..Len(views) :
                                  views[i] = id /\ \A j \in 1..(i - 1) : views[j] # id) + 1,
                       Len(views))

\* The query result of the views of the registry: one note with a number.
PluginData == <<[data |-> << <<NoteAt("a-5")>> >>]>>

\* The configuration of the views of the registry.
PluginConfig == BaseConfig

\* A HeatmapView that has not been constructed.
NoHeatmapView ==
    [life |-> "none", connected |-> FALSE, config |-> PluginConfig, view |-> NewView,
     renderedWith |-> <<>>]

\* What a render reads of plugin.settings.
SettingsRead(colorSchemes, dateFormat) ==
    [colorSchemes |-> colorSchemes, dateFormat |-> dateFormat]

\* refresh() of a HeatmapView: renderedWith records the settings of its
\* latest render.
refreshView(hv, colorSchemes, dateFormat, now) ==
    IF ~hv.connected THEN hv
    ELSE [hv EXCEPT
             !.view = render(hv.view, hv.config, PluginData, colorSchemes, dateFormat, now),
             !.renderedWith = <<SettingsRead(colorSchemes, dateFormat)>>]

\* refreshAllViews() of the plugin: for (const view of this.activeViews)
\* view.refresh(). refreshed is the first listed view after its refresh();
\* an exception of its render leaves the loop.
RECURSIVE refreshActiveViews(_, _, _, _, _)
refreshRest(views, hvs, refreshed, colorSchemes, dateFormat, now) ==
    IF refreshed.connected /\ refreshed.view.renderOutcome = "threw"
    THEN [hvs EXCEPT ![Head(views)] = refreshed]
    ELSE refreshActiveViews(Tail(views), [hvs EXCEPT ![Head(views)] = refreshed],
                            colorSchemes, dateFormat, now)

refreshActiveViews(views, hvs, colorSchemes, dateFormat, now) ==
    IF views = <<>> THEN hvs
    ELSE refreshRest(views, hvs,
                     refreshView(hvs[Head(views)], colorSchemes, dateFormat, now),
                     colorSchemes, dateFormat, now)

\* The changes of the settings the user makes in the settings tab.
MaxSaves == 1

\* The scheme whose buttons the user presses is the first one shown.
PressedScheme == 1

\* new HeatmapView(controller, parentEl, plugin): the constructor registers
\* the view.
ConstructView(id) ==
    /\ heatmapViews[id].life = "none"
    /\ \E connected \in BOOLEAN :
          heatmapViews' = [heatmapViews EXCEPT
                              ![id] = [NoHeatmapView EXCEPT !.life = "constructed",
                                                            !.connected = connected]]
    /\ activeViews' = registerHeatmapView(activeViews, id)
    /\ UNCHANGED <<settingsVars, saves, hostConfig, hostData, isConnected, view>>

\* onunload()
UnloadView(id) ==
    /\ heatmapViews[id].life = "constructed"
    /\ heatmapViews' = [heatmapViews EXCEPT ![id].life = "unloaded"]
    /\ activeViews' = unregisterHeatmapView(activeViews, id)
    /\ UNCHANGED <<settingsVars, saves, hostConfig, hostData, isConnected, view>>

\* The host puts the container of a view into the document or takes it out.
MoveView(id) ==
    /\ heatmapViews[id].life = "constructed"
    /\ heatmapViews' = [heatmapViews EXCEPT ![id].connected = ~@]
    /\ UNCHANGED <<settingsVars, saves, viewVars>>

\* The css-change event: refreshAllViews().
CssChange ==
    /\ heatmapViews' = refreshActiveViews(activeViews, heatmapViews, ColorSchemes,
                                          settings.dateFormat, Now)
    /\ UNCHANGED <<settingsVars, saves, viewVars>>

\* A handler of the settings tab has changed the settings and calls
\* saveSettings(): the handler waits for the save.
StartSave(defaults, s) ==
    /\ saves.started < MaxSaves
    /\ defaultColorSchemes' = defaults
    /\ settings' = s
    /\ saves' = [started |-> saves.started + 1,
                 pending |-> Append(saves.pending, saveSettings(defaults, s)),
                 failed |-> FALSE]
    /\ UNCHANGED <<savedData, modal, heatmapViews, viewVars>>

\* The trash button: deleteScheme up to the await.
TabDeleteScheme ==
    /\ PressedScheme <= Len(ColorSchemes)
    /\ StartSave(deleteScheme(defaultColorSchemes, settings,
                              ColorSchemes[PressedScheme]).defaults,
                 deleteScheme(defaultColorSchemes, settings,
                              ColorSchemes[PressedScheme]).settings)

\* The onSave callback of openAddSchemeModal for a scheme named Sea.
TabAddScheme ==
    /\ Len(ColorSchemes) < MaxSchemes
    /\ \E result \in {prepareSchemeForSave(
                          [newSchemeOf(defaultColorSchemes) EXCEPT
                              !.name = <<"S", "e", "a">>], TRUE)} :
          StartSave(onSave(defaultColorSchemes, settings, TRUE, <<>>, result).defaults,
                    onSave(defaultColorSchemes, settings, TRUE, <<>>, result).settings)

\* The onSave callback of openEditSchemeModal with the name changed to Sea.
TabEditScheme ==
    /\ PressedScheme <= Len(ColorSchemes)
    /\ \E scheme \in {ColorSchemes[PressedScheme]} :
       \E result \in {prepareSchemeForSave([scheme EXCEPT !.name = <<"S", "e", "a">>],
                                           FALSE)} :
          StartSave(onSave(defaultColorSchemes, settings, FALSE, scheme.id, result).defaults,
                    onSave(defaultColorSchemes, settings, FALSE, scheme.id, result).settings)

\* The date format field's onChange up to the await.
TabSetDateFormat ==
    \E value \in DateFormatInputs :
        StartSave(defaultColorSchemes,
                  [settings EXCEPT !.dateFormat =
                       IF value # <<>> THEN value ELSE DefaultDateFormat])

\* The sequence without its i-th element.
RemoveAt(seq, i) == SubSeq(seq, 1, i - 1) \o SubSeq(seq, i + 1, Len(seq))

\* A saveData call completes and its handler goes on: refreshAllViews().
SaveCompletes ==
    /\ \E i \in 1..Len(saves.pending) :
          /\ savedData' = saves.pending[i]
          /\ saves' = [saves EXCEPT !.pending = RemoveAt(@, i)]
    /\ heatmapViews' = refreshActiveViews(activeViews, heatmapViews, ColorSchemes,
                                          settings.dateFormat, Now)
    /\ UNCHANGED <<defaultColorSchemes, settings, modal, viewVars>>

\* A saveData call fails: its handler ends with the rejection.
SaveFails ==
    /\ \E i \in 1..Len(saves.pending) :
          saves' = [saves EXCEPT !.pending = RemoveAt(@, i), !.failed = TRUE]
    /\ UNCHANGED <<settingsVars, heatmapViews, viewVars>>

\* Settings the tab can have left when the views are made: the aliased
\* default array with four of its schemes deleted, and a list of the user's
\* own.
PluginSettingsAtStart ==
    { [defaults |-> SubSeq(DEFAULT_COLOR_SCHEMES, 5, 5), settings |-> loadSettings(<<>>)],
      [defaults |-> DEFAULT_COLOR_SCHEMES,
       settings |-> loadSettings(
                        <<[colorSchemes |->
                               << <<ColorSchemeItem(<<"s", "e", "a">>, <<"S", "e", "a">>,
                                                    "#ffffff", "#0000ff", FALSE)>> >>,
                           dateFormat |-> <<OtherDateFormat>>]>>)] }

InitPlugin ==
    /\ \E s \in PluginSettingsAtStart :
          /\ defaultColorSchemes = s.defaults
          /\ settings = s.settings
          /\ savedData = saveSettings(s.defaults, s.settings)
    /\ modal = ClosedModal
    /\ hostConfig = BaseConfig
    /\ hostData = <<>>
    /\ isConnected = FALSE
    /\ activeViews = <<>>
    /\ view = NewView
    /\ heatmapViews = [id \in HeatmapViewIds |-> NoHeatmapView]
    /\ saves = [started |-> 0, pending |-> <<>>, failed |-> FALSE]

\* No view of the registry has been made and no save is under way.
PluginIdle ==
    /\ heatmapViews = [id \in HeatmapViewIds |-> NoHeatmapView]
    /\ saves = [started |-> 0, pending |-> <<>>, failed |-> FALSE]

-----------------------------------------------------------------------------
(* Specifications                                                          *)

vars == <<slugVars, pdVars, settingsVars, viewVars, timeZone, utilVars, pluginVars>>

NextSlug ==
    PrepareSchemeForSave /\ UNCHANGED <<pdVars, settingsVars, viewVars, timeZone, utilVars, pluginVars>>

InitSpecSlug == InitSlug /\ DataIdle /\ SettingsIdle /\ ViewIdle /\ UtilIdle /\ timeZone = "UTC"
        /\ PluginIdle

SpecSlug == InitSpecSlug /\ [][NextSlug]_vars

NextData ==
    \/ ProcessDataEntry /\ UNCHANGED <<slugVars, settingsVars, viewVars, timeZone, utilVars, pluginVars>>
    \/ ProcessDataReturn /\ UNCHANGED <<slugVars, settingsVars, viewVars, timeZone, utilVars, pluginVars>>

InitSpecData == InitData /\ SlugIdle /\ SettingsIdle /\ ViewIdle /\ UtilIdle /\ timeZone = "UTC"
        /\ PluginIdle

SpecData == InitSpecData /\ [][NextData]_vars

InitSpecDataMixed ==
    InitDataMixed /\ SlugIdle /\ SettingsIdle /\ ViewIdle /\ UtilIdle /\ timeZone = "UTC"
        /\ PluginIdle

SpecDataMixed == InitSpecDataMixed /\ [][NextData]_vars

NextSettings ==
    \/ LoadSettings /\ UNCHANGED <<slugVars, pdVars, timeZone, utilVars, pluginVars>>
    \/ SetDateFormat /\ UNCHANGED <<slugVars, pdVars, timeZone, utilVars, pluginVars>>
    \/ OpenAddSchemeModal /\ UNCHANGED <<slugVars, pdVars, timeZone, utilVars, pluginVars>>
    \/ OpenEditSchemeModal /\ UNCHANGED <<slugVars, pdVars, timeZone, utilVars, pluginVars>>
    \/ ModalSetName /\ UNCHANGED <<slugVars, pdVars, timeZone, utilVars, pluginVars>>
    \/ ModalSaveRejected /\ UNCHANGED <<slugVars, pdVars, timeZone, utilVars, pluginVars>>
    \/ ModalSave /\ UNCHANGED <<slugVars, pdVars, timeZone, utilVars, pluginVars>>
    \/ ModalClose /\ UNCHANGED <<slugVars, pdVars, timeZone, utilVars, pluginVars>>
    \/ DeleteAnyScheme /\ UNCHANGED <<slugVars, pdVars, timeZone, utilVars, pluginVars>>

InitSpecSettings ==
    InitSettings /\ SlugIdle /\ DataIdle /\ ViewIdle /\ UtilIdle /\ timeZone = "UTC"
        /\ PluginIdle

SpecSettings == InitSpecSettings /\ [][NextSettings]_vars

NextView ==
    \/ OnDataUpdated /\ UNCHANGED <<slugVars, pdVars, settingsVars, timeZone, utilVars, pluginVars>>
    \/ RefreshAllViews /\ UNCHANGED <<slugVars, pdVars, settingsVars, timeZone, utilVars, pluginVars>>
    \/ HostAttach /\ UNCHANGED <<slugVars, pdVars, settingsVars, timeZone, utilVars, pluginVars>>
    \/ HostDetach /\ UNCHANGED <<slugVars, pdVars, settingsVars, timeZone, utilVars, pluginVars>>

InitSpecView ==
    InitSettingsOfView /\ InitView /\ SlugIdle /\ DataIdle /\ UtilIdle /\ timeZone \in TimeZones
        /\ PluginIdle

SpecView == InitSpecView /\ [][NextView]_vars

NextUtil ==
    \/ ParseISODateString /\ UNCHANGED <<slugVars, pdVars, settingsVars, viewVars, pluginVars>>
    \/ FormatDateISO /\ UNCHANGED <<slugVars, pdVars, settingsVars, viewVars, pluginVars>>
    \/ GenerateDateRangeEnter /\ UNCHANGED <<slugVars, pdVars, settingsVars, viewVars, pluginVars>>
    \/ GenerateDateRangeStep /\ UNCHANGED <<slugVars, pdVars, settingsVars, viewVars, pluginVars>>
    \/ GenerateDateRangeReturn /\ UNCHANGED <<slugVars, pdVars, settingsVars, viewVars, pluginVars>>
    \/ GetWeekNumber /\ UNCHANGED <<slugVars, pdVars, settingsVars, viewVars, pluginVars>>
    \/ GenerateMonthLabelsEnter /\ UNCHANGED <<slugVars, pdVars, settingsVars, viewVars, pluginVars>>
    \/ GenerateMonthLabelsDayStep /\ UNCHANGED <<slugVars, pdVars, settingsVars, viewVars, pluginVars>>
    \/ GenerateMonthLabelsWeeksEnter /\ UNCHANGED <<slugVars, pdVars, settingsVars, viewVars, pluginVars>>
    \/ GenerateMonthLabelsWeekStep /\ UNCHANGED <<slugVars, pdVars, settingsVars, viewVars, pluginVars>>
    \/ GenerateMonthLabelsReturn /\ UNCHANGED <<slugVars, pdVars, settingsVars, viewVars, pluginVars>>
    \/ CalculateDateRange /\ UNCHANGED <<slugVars, pdVars, settingsVars, viewVars, pluginVars>>
    \/ CalculateIntensityNumeric /\ UNCHANGED <<slugVars, pdVars, settingsVars, viewVars, pluginVars>>
    \/ GetIntensityLevel /\ UNCHANGED <<slugVars, pdVars, settingsVars, viewVars, pluginVars>>
    \/ RenderHeatmap /\ UNCHANGED <<slugVars, pdVars, settingsVars, viewVars, pluginVars>>
    \/ ClickGrid /\ UNCHANGED <<slugVars, pdVars, settingsVars, viewVars, pluginVars>>

InitSpecUtil == InitUtil /\ SlugIdle /\ DataIdle /\ SettingsIdle /\ ViewIdle
        /\ PluginIdle

SpecUtil == InitSpecUtil /\ [][NextUtil]_vars

NextPlugin ==
    \/ (\E id \in HeatmapViewIds : ConstructView(id))
           /\ UNCHANGED <<slugVars, pdVars, timeZone, utilVars>>
    \/ (\E id \in HeatmapViewIds : UnloadView(id))
           /\ UNCHANGED <<slugVars, pdVars, timeZone, utilVars>>
    \/ (\E id \in HeatmapViewIds : MoveView(id))
           /\ UNCHANGED <<slugVars, pdVars, timeZone, utilVars>>
    \/ CssChange /\ UNCHANGED <<slugVars, pdVars, timeZone, utilVars>>
    \/ TabDeleteScheme /\ UNCHANGED <<slugVars, pdVars, timeZone, utilVars>>
    \/ TabAddScheme /\ UNCHANGED <<slugVars, pdVars, timeZone, utilVars>>
    \/ TabEditScheme /\ UNCHANGED <<slugVars, pdVars, timeZone, utilVars>>
    \/ TabSetDateFormat /\ UNCHANGED <<slugVars, pdVars, timeZone, utilVars>>
    \/ SaveCompletes /\ UNCHANGED <<slugVars, pdVars, timeZone, utilVars>>
    \/ SaveFails /\ UNCHANGED <<slugVars, pdVars, timeZone, utilVars>>

InitSpecPlugin == InitPlugin /\ SlugIdle /\ DataIdle /\ UtilIdle /\ timeZone = "UTC"

SpecPlugin == InitSpecPlugin /\ [][NextPlugin]_vars

\* A saveData call that is under way ends: a step of SaveCompletes or of
\* SaveFails.
SaveSettles ==
    \E i \in 1..Len(saves.pending), failed \in {saves.failed, TRUE} :
        saves' = [saves EXCEPT !.pending = RemoveAt(@, i), !.failed = failed]

\* The promise of saveData is settled in the end, one way or the other.
SpecPluginFair == SpecPlugin /\ WF_saves(SaveSettles)

\* The steps of generateDateRange.
GenerateDateRangeRuns ==
    (GenerateDateRangeEnter \/ GenerateDateRangeStep \/ GenerateDateRangeReturn)
        /\ UNCHANGED <<slugVars, pdVars, settingsVars, viewVars, pluginVars>>

\* generateDateRange is synchronous code: once called it runs on for as long
\* as it has a step to take.
SpecUtilFair == SpecUtil /\ WF_vars(GenerateDateRangeRuns)

-----------------------------------------------------------------------------
(* Properties of processData                                               *)

SetMax(S) == CHOOSE x \in S : \A y \in S : y <= x

SetMin(S) == CHOOSE x \in S : \A y \in S : x <= y

\* The dates and the values extracted from the first n raw entries of the call.
RECURSIVE RawDatesUpTo(_)
RawDatesUpTo(n) ==
    IF n = 0 THEN <<>>
    ELSE Append(RawDatesUpTo(n - 1),
                extractDate(pdArgs.entries[n], pdArgs.dateProperty, pdArgs.dateFormat))

RECURSIVE RawValuesUpTo(_)
RawValuesUpTo(n) ==
    IF n = 0 THEN <<>>
    ELSE Append(RawValuesUpTo(n - 1), extractValue(pdArgs.entries[n], pdArgs.valueProperty))

RawDates == RawDatesUpTo(Len(pdArgs.entries))

RawValues == RawValuesUpTo(Len(pdArgs.entries))

\* Of the first n entries, those that have a date and a usable value.
Usable(dates, values, n) == {i \in 1..n : dates[i] # <<>> /\ ~values[i].value.isNull}

\* map aggregates the first n entries: one entry per date, holding the
\* largest usable value of the date, or null when the date has none.
Aggregates(map, dates, values, n) ==
    /\ DOMAIN map = {dates[i] : i \in {j \in 1..n : dates[j] # <<>>}}
    /\ \A d \in DOMAIN map :
         LET ofDate == {values[i].value.v :
                            i \in {j \in Usable(dates, values, n) : dates[j] = d}}
         IN  /\ map[d].date = d
             /\ IF ofDate = {} THEN map[d].value.isNull
                ELSE ~map[d].value.isNull /\ map[d].value.v = SetMax(ofDate)

\* C1: processData keeps exactly one aggregated entry per distinct extracted
\* date, whose value is the maximum of the non-null values of the entries of
\* that date, and null only if all of them are null. It holds of the map after
\* every iteration of the loop and of the returned map.
C1_MaxPerDate ==
    \A dates \in {RawDates} : \A values \in {RawValues} :
        /\ Aggregates(pd.entries, dates, values, pdIdx - 1)
        /\ pdOut # <<>> => Aggregates(pdOut[1].entries, dates, values, Len(pdArgs.entries))

\* Two entries of one date, the larger value first: the larger one is kept.
C1_Witness ==
    /\ pdOut # <<>>
    /\ \E i, j \in Usable(RawDates, RawValues, Len(pdArgs.entries)) :
         /\ i < j
         /\ RawDates[i] = RawDates[j]
         /\ RawValues[i].value.v > RawValues[j].value.v
         /\ pdOut[1].entries[RawDates[i]].value.v = RawValues[i].value.v

\* The types of the usable values of the entries.
UsableTypes ==
    LET values == RawValues
    IN  {values[i].type : i \in Usable(RawDates, values, Len(values))}

C2_Final ==
    pdOut # <<>> =>
        LET types == UsableTypes
        IN  pdOut[1].stats.valueType =
                IF types = {"boolean"} THEN "boolean"
                ELSE IF types = {"number"} THEN "number"
                ELSE "unsupported"

\* C2: stats.valueType is "boolean" if every usable value of a dated entry is
\* boolean-typed, "number" if every one is number-typed, "unsupported" if both
\* types occur or there is no usable value; and a running type that has become
\* "unsupported" stays "unsupported" in every later iteration.
C2_ValueType ==
    /\ []C2_Final
    /\ [][pd.valueType = "unsupported" => pd'.valueType = "unsupported"]_vars

\* A boolean and a number among the usable values: the result is unsupported.
C2_Witness ==
    /\ pdOut # <<>>
    /\ UsableTypes = {"boolean", "number"}
    /\ pdOut[1].stats.valueType = "unsupported"
    /\ pd.valueType = "unsupported"

\* C3: count is the number of dated entries with a non-null value; without
\* any, min = 0 and max = 1; when all of them equal one value v > 0, min = 0
\* and max = v; otherwise min and max are the minimum and the maximum of the
\* non-null values.
C3_Stats ==
    pdOut # <<>> =>
        LET values == RawValues
            usable == Usable(RawDates, values, Len(pdArgs.entries))
            numbers == {values[i].value.v : i \in usable}
            stats  == pdOut[1].stats
        IN  /\ stats.count = Cardinality(usable)
            /\ IF usable = {} THEN stats.min = 0 /\ stats.max = 1
               ELSE IF Cardinality(numbers) = 1 /\ SetMin(numbers) > 0
               THEN stats.min = 0 /\ stats.max = SetMax(numbers)
               ELSE stats.min = SetMin(numbers) /\ stats.max = SetMax(numbers)

\* Two usable values, both the same positive number: min is forced to 0.
C3_Witness ==
    /\ pdOut # <<>>
    /\ LET values == RawValues
           usable == Usable(RawDates, values, Len(pdArgs.entries))
       IN  /\ Cardinality(usable) = 2
           /\ {values[i].value.v : i \in usable} = {5}
    /\ pdOut[1].stats.min = 0
    /\ pdOut[1].stats.max = 5
    /\ pdOut[1].stats.count = 2

-----------------------------------------------------------------------------
(* Properties of the settings tab                                          *)

\* C4 as stated: a delete of the last remaining colour scheme leaves
\* settings.colorSchemes equal to the five built-in schemes.
C4_DeleteLastRestoresDefaults ==
    [][(Len(ColorSchemes) = 1 /\ DeleteAnyScheme)
           => ColorSchemes' = DEFAULT_COLOR_SCHEMES]_vars

-----------------------------------------------------------------------------
(* Properties of the view                                                  *)

\* A render has run: the view is what the last render left of the current
\* this.config and this.data.
Rendered == view.renderOutcome # "none"

\* The grids among the children of the container.
GridsShown ==
    {view.container[i].id :
        i \in {j \in 1..Len(view.container) : view.container[j].kind = "grid"}}

\* The grids that have a listener attached.
GridsListening == {g \in DOMAIN view.gridListeners : view.gridListeners[g] # {}}

\* The container holds one empty state, with this title.
Shows(title) ==
    /\ Len(view.container) = 1
    /\ view.container[1].kind = "emptyState"
    /\ view.container[1].message = title

\* The configuration render reads: the options of the host, an unset
\* start or end date being the first or last day of the current year.
ViewConfig == getConfig(hostConfig, Now)

ConfigStart == parseISODateString(ViewConfig.startDate)

ConfigEnd == parseISODateString(ViewConfig.endDate)

DatesAreIso == ConfigStart.kind = "date" /\ ConfigEnd.kind = "date"

ValidConfig ==
    /\ ViewConfig.valueProperty # NoProperty
    /\ DatesAreIso
    /\ getTime(ConfigStart) < getTime(ConfigEnd)

\* C5 (state part): a grid with a listener is the one grid in the container
\* and the grid of the disposer the view holds, and it has both listeners.
C5_OneGridListens ==
    /\ Cardinality(GridsListening) <= 1
    /\ \A g \in GridsListening :
          /\ view.cleanupInteractions = g
          /\ GridsShown = {g}
          /\ view.gridListeners[g] = {"click", "mouseover"}

\* C5: across the calls of onDataUpdated() and refresh(), at most one grid
\* has listeners; a render that follows a render with a grid has run that
\* grid's disposer, after which the old grid has no listener left and the
\* listeners are on another grid.
C5_DisposerBeforeAttach ==
    /\ []C5_OneGridListens
    /\ [][(view.cleanupInteractions # NoCleanup /\ view' # view)
            => /\ view.cleanupInteractions \notin
                      {g \in DOMAIN view'.gridListeners : view'.gridListeners[g] # {}}
               /\ view'.cleanupInteractions # view.cleanupInteractions]_vars

\* A second grid has replaced the first: it has the listeners, the first
\* grid is gone.
C5_Witness ==
    /\ GridsShown = {2}
    /\ view.cleanupInteractions = 2
    /\ view.gridListeners[2] = {"click", "mouseover"}
    /\ 1 \notin DOMAIN view.gridListeners

\* C6 as stated: after every render the container holds exactly one child,
\* the grid or an empty state with title and description, and render has
\* not thrown.
C6_OneChildAfterRender ==
    Rendered =>
        /\ view.renderOutcome = "returned"
        /\ Len(view.container) = 1
        /\ \/ view.container[1].kind = "grid"
           \/ /\ view.container[1].kind = "emptyState"
              /\ view.container[1].message # ""
              /\ view.container[1].description # ""

\* The empty states that correspond to what is wrong with the configuration.
ConfigErrorTitles ==
    (IF ViewConfig.valueProperty = NoProperty
     THEN {"view.emptyState.configureProperty"} ELSE {})
    \cup (IF ~DatesAreIso THEN {"view.emptyState.invalidDateFormat"} ELSE {})
    \cup (IF DatesAreIso /\ getTime(ConfigStart) >= getTime(ConfigEnd)
          THEN {"view.emptyState.startAfterEnd"} ELSE {})

\* C7: after a render, a grid, a disposer or a listener exists only if the
\* value property is set and start and end are strict ISO dates with start
\* before end; otherwise the container shows an empty state of what is wrong,
\* there is no grid and cleanupInteractions is null.
C7_GridOnlyIfValidConfig ==
    Rendered =>
        /\ (GridsShown # {} \/ GridsListening # {}
                \/ view.cleanupInteractions # NoCleanup) => ValidConfig
        /\ ~ValidConfig =>
              /\ \E title \in ConfigErrorTitles : Shows(title)
              /\ GridsShown = {} /\ GridsListening = {}
              /\ view.cleanupInteractions = NoCleanup

\* With entries to show, start = end has been answered by the empty state.
C7_Witness ==
    /\ Rendered
    /\ hostData # <<>> /\ hostData[1].data # <<>> /\ Len(hostData[1].data[1]) > 0
    /\ DatesAreIso /\ getTime(ConfigStart) = getTime(ConfigEnd)
    /\ Shows("view.emptyState.startAfterEnd")
    /\ GridsShown = {}

\* The day five years after the start of the range.
FiveYearsAfterStart ==
    newDate(getFullYear(ConfigStart) + 5, getMonth(ConfigStart), getDate(ConfigStart))

\* C8 as stated: the range is rejected as too large only if it is longer
\* than five calendar years (its last day is the day five years after its
\* first or a later one), and every range that is longer has no grid.
C8_TooLargeOnlyOverFiveYears ==
    (Rendered /\ ValidConfig) =>
        /\ Shows("view.emptyState.rangeTooLarge")
              => getTime(ConfigEnd) >= getTime(FiveYearsAfterStart)
        /\ getTime(ConfigEnd) > getTime(FiveYearsAfterStart) => GridsShown = {}

\* The entries of the query, when this.data is set.
QueryEntries ==
    IF hostData[1].data = <<>> THEN <<>> ELSE hostData[1].data[1]

\* The entries of the query that have a date.
DatedEntries ==
    {i \in 1..Len(QueryEntries) :
        extractDate(QueryEntries[i], ViewConfig.dateProperty, settings.dateFormat) # <<>>}

\* The types of the usable values of the dated entries.
DatedValueTypes ==
    {extractValue(QueryEntries[i], ViewConfig.valueProperty).type :
        i \in {j \in DatedEntries :
                 ~extractValue(QueryEntries[j], ViewConfig.valueProperty).value.isNull}}

\* C9 as stated: with a valid configuration, no entries end in the 'no
\* data' state, entries of which none has a date in the 'no dated notes'
\* state, and dated entries of an unsupported or mixed value type in the
\* 'unsupported property' state.
C9_OwnEmptyStatePerDataError ==
    (Rendered /\ ValidConfig /\ hostData # <<>>) =>
        /\ Len(QueryEntries) = 0 => Shows("view.emptyState.noData")
        /\ (Len(QueryEntries) > 0 /\ DatedEntries = {})
              => Shows("view.emptyState.noDatedNotes")
        /\ (DatedEntries # {} /\ DatedValueTypes \notin {{"number"}, {"boolean"}})
              => Shows("view.emptyState.unsupportedProperty")

-----------------------------------------------------------------------------
(* Properties of prepareSchemeForSave                                      *)

\* The places where a maximal run of characters of [a-z0-9] starts in s, and
\* the place where the run that starts at i ends.
SlugRunStarts(s) ==
    {i \in 1..Len(s) : IsSlugChar(s[i]) /\ (i = 1 \/ ~IsSlugChar(s[i - 1]))}

SlugRunEnd(s, i) ==
    CHOOSE j \in i..Len(s) :
        /\ \A k \in i..j : IsSlugChar(s[k])
        /\ (j = Len(s) \/ ~IsSlugChar(s[j + 1]))

\* The runs that start at the places of starts, in order, joined by hyphens.
RECURSIVE JoinSlugRuns(_, _)
JoinSlugRuns(s, starts) ==
    IF starts = {} THEN <<>>
    ELSE LET i    == SetMin(starts)
             run  == SubSeq(s, i, SlugRunEnd(s, i))
             rest == starts \ {i}
         IN  IF rest = {} THEN run ELSE run \o <<"-">> \o JoinSlugRuns(s, rest)

\* Non-empty, only [a-z0-9-], no hyphen first or last, no two hyphens in a row.
WellFormedId(id) ==
    /\ id # <<>>
    /\ \A i \in 1..Len(id) : IsSlugChar(id[i]) \/ id[i] = "-"
    /\ id[1] # "-" /\ id[Len(id)] # "-"
    /\ \A i \in 1..(Len(id) - 1) : ~(id[i] = "-" /\ id[i + 1] = "-")

\* The result is the input in every field but id.
SameButId(in, out) == [out EXCEPT !.id = in.id] = in

HasAsciiLetterOrDigit(name) ==
    \E i \in 1..Len(name) : IsLower(name[i]) \/ IsUpper(name[i]) \/ IsDigit(name[i])

\* C10 as amended: prepareSchemeForSave returns the input scheme in every
\* field but id; the id is kept when isNew is false; when isNew is true it is
\* the maximal runs of [a-z0-9] of the lower-cased name joined by single
\* hyphens, so it is well formed, and it is "scheme" whenever the lower-cased
\* name has no character of [a-z0-9].
C10_PreparedScheme ==
    slugOut # <<>> =>
        LET in     == slugIn.scheme
            out    == slugOut[1]
            lower  == toLowerCase(in.name)
            starts == SlugRunStarts(lower)
        IN  /\ SameButId(in, out)
            /\ ~slugIn.isNew => out.id = in.id
            /\ slugIn.isNew =>
                 /\ out.id = IF starts = {} THEN SchemeFallbackId
                             ELSE JoinSlugRuns(lower, starts)
                 /\ WellFormedId(out.id)
                 /\ (~\E i \in 1..Len(lower) : IsSlugChar(lower[i]))
                        => out.id = SchemeFallbackId

\* "Hello---World" saved as a new scheme gets the id hello-world.
C10_Witness ==
    /\ slugOut # <<>>
    /\ slugIn.isNew
    /\ slugIn.scheme.name =
           <<"H", "e", "l", "l", "o", "-", "-", "-", "W", "o", "r", "l", "d">>
    /\ slugOut[1].id = <<"h", "e", "l", "l", "o", "-", "w", "o", "r", "l", "d">>

\* C10 as stated: as above, and the id of a new scheme is "scheme" exactly
\* when the name contains no ASCII letter or digit.
C10_Original ==
    slugOut # <<>> =>
        LET in  == slugIn.scheme
            out == slugOut[1]
        IN  /\ SameButId(in, out)
            /\ ~slugIn.isNew => out.id = in.id
            /\ slugIn.isNew =>
                 /\ WellFormedId(out.id)
                 /\ (out.id = SchemeFallbackId <=> ~HasAsciiLetterOrDigit(in.name))

-----------------------------------------------------------------------------
(* Properties of the settings tab: scheme ids and the edit modal           *)

\* C11: after any sequence of add, edit and delete operations the ids of the
\* schemes in settings.colorSchemes are pairwise distinct.
C11_DistinctIds ==
    \A i, j \in 1..Len(ColorSchemes) :
        i # j => ColorSchemes[i].id # ColorSchemes[j].id

\* Every character of the name is white space (the empty name included).
Blank(name) == \A i \in 1..Len(name) : IsSpace(name[i])

\* A click on the modal's Save button.
HandleSave == ModalSaveRejected \/ ModalSave

\* The scheme the modal hands to onSave.
PreparedScheme == prepareSchemeForSave(modal.scheme, modal.isNew)

\* C12: Save with a blank name leaves settings.colorSchemes as it is, keeps
\* the modal open and shows the error; Save with a non-blank name has the
\* effect of one onSave call with the prepared scheme (one push for a new
\* scheme, one replacement for an edited one) and closes the modal; Cancel
\* leaves settings.colorSchemes as it is, whatever was typed into the modal.
C12_ModalSaveAndCancel ==
    [][/\ (HandleSave /\ Blank(modal.scheme.name))
            => /\ ColorSchemes' = ColorSchemes
               /\ savedData' = savedData
               /\ modal'.open /\ modal'.error
       /\ (HandleSave /\ ~Blank(modal.scheme.name))
            => /\ ~modal'.open
               /\ ColorSchemes' =
                     IF modal.isNew THEN Append(ColorSchemes, PreparedScheme)
                     ELSE updateScheme(ColorSchemes, modal.scheme.id, PreparedScheme)
       /\ ModalClose => ColorSchemes' = ColorSchemes
       /\ ModalSetName => ColorSchemes' = ColorSchemes]_vars

\* The modal of an existing scheme is open with a blank name typed in and
\* the error shown, while the scheme in the settings keeps its name.
C12_Witness ==
    /\ modal.open /\ modal.error /\ ~modal.isNew
    /\ Blank(modal.scheme.name)
    /\ \E i \in 1..Len(ColorSchemes) :
          /\ ColorSchemes[i].id = modal.scheme.id
          /\ ~Blank(ColorSchemes[i].name)

-----------------------------------------------------------------------------
(* Properties of the helpers of utils/date.ts and utils/color.ts           *)

\* The helper fn has returned.
Returned(fn) == utilCall.fn = fn /\ utilOut # <<>>

\* The text has the shape YYYY-MM-DD and names a day of the calendar.
IsCalendarText(s) ==
    /\ matchesIsoDateRegex(s)
    /\ DigitsToNat(SubSeq(s, 6, 7)) \in 1..12
    /\ DigitsToNat(SubSeq(s, 9, 10))
          \in 1..DaysInMonth(DigitsToNat(SubSeq(s, 1, 4)), DigitsToNat(SubSeq(s, 6, 7)))

\* The day a calendar text names.
DayOfText(s) ==
    daysFromCivil(DigitsToNat(SubSeq(s, 1, 4)), DigitsToNat(SubSeq(s, 6, 7)),
                  DigitsToNat(SubSeq(s, 9, 10)))

\* The text YYYY-MM-DD of a day.
TextOfDay(n) ==
    LET c == civilFromDays(n) IN IsoText(c.year, c.month, c.day)

\* C13: for every text s of the shape YYYY-MM-DD that names a calendar day,
\* parseISODateString returns a Date and formatDateISO of it is s again; for
\* every text that has not that shape, even with the white space around it
\* taken off, parseISODateString returns null.
C13_RoundTrip ==
    Returned("parseISODateString") =>
        LET s == utilCall.dateStr
        IN  /\ IsCalendarText(s) =>
                 /\ utilOut[1].kind = "date"
                 /\ utilLocals.pc = "formatted" => utilLocals.text = s
            /\ ~matchesIsoDateRegex(trim(s)) => utilOut[1].kind = "null"

\* The ISO texts of the days first..last, in order.
TextsOfDays(first, last) == [i \in 1..(last - first + 1) |-> TextOfDay(first + i - 1)]

\* generateDateRange has returned for two valid Dates.
DateRangeReturned ==
    /\ Returned("generateDateRange")
    /\ utilCall.start.kind = "date" /\ utilCall.end.kind = "date"

\* C14 as stated: for start <= end generateDateRange returns the texts of
\* the days from start to end, one for each calendar day in order, and for
\* start > end it returns the empty sequence.
C14_Original ==
    DateRangeReturned =>
        IF getTime(utilCall.start) <= getTime(utilCall.end)
        THEN utilOut[1] = TextsOfDays(utilCall.start.day, utilCall.end.day)
        ELSE utilOut[1] = <<>>

\* What generateDateRange returns, by the calendar days of its arguments.
C14_ByCalendarDay ==
    DateRangeReturned =>
        IF utilCall.start.day <= utilCall.end.day
        THEN utilOut[1] = TextsOfDays(utilCall.start.day, utilCall.end.day)
        ELSE utilOut[1] = <<>>

\* C14 (amended): generateDateRange terminates; when the calendar day of
\* start is not after the calendar day of end it returns the texts of the
\* days from start's to end's, one for each calendar day in order, whatever
\* the times of day; when start's day is after end's day it returns the
\* empty sequence.
C14_CalendarDays ==
    /\ []C14_ByCalendarDay
    /\ (utilCall.fn = "generateDateRange" /\ utilOut = <<>>) ~> (utilOut # <<>>)

\* A range has been returned for a start later in the day than the end, over
\* the night the clocks go forward.
C14_Witness ==
    /\ DateRangeReturned
    /\ timeZone = "Europe/Berlin"
    /\ utilCall.start.hour > utilCall.end.hour
    /\ utilCall.start.day = daysFromCivil(2024, 3, 28)
    /\ Len(utilOut[1]) = MaxSpanDays + 1

\* C15: getWeekNumber is 1 for rangeStart; from one day to the next it is one
\* more when the later day has getDayOfWeek 0 and the same otherwise (so it
\* never decreases); getDayOfWeek is in 0..6, and with weekStart 1 Sunday is
\* 6 and Monday is 0.
C15_WeekNumberByDay ==
    Returned("getWeekNumber") =>
        LET d     == utilCall.date
            start == utilCall.rangeStart
            ws    == utilCall.weekStart
        IN  /\ d.day = start.day => utilOut[1] = 1
            /\ d.day > start.day =>
                 utilOut[1] - getWeekNumber(DateAt(d.day - 1, d.hour), start, ws)
                     = IF getDayOfWeek(d, ws) = 0 THEN 1 ELSE 0
            /\ getDayOfWeek(d, ws) \in 0..6
            /\ ws = 1 => getDayOfWeek(d, ws) = (IF getDay(d) = 0 THEN 6 ELSE getDay(d) - 1)

\* generateMonthLabels has returned for the first to the last day of a year
\* with weeks that start on Sunday.
FullYearLabelsReturned ==
    /\ Returned("generateMonthLabels")
    /\ utilCall.weekStart = 0
    /\ \E y \in LabelYears :
          /\ utilCall.rangeStart = ValidDate(daysFromCivil(y, 1, 1))
          /\ utilCall.rangeEnd = ValidDate(daysFromCivil(y, 12, 31))

\* The weeks a range touches, the first of them being its first day's.
WeeksOfRange(start, end, ws) ==
    (end.day - start.day + (IF ws = 0 THEN getDay(start) ELSE (getDay(start) + 6) % 7)) \div 7 + 1

\* C16: over a full calendar year with weekStart 0 generateMonthLabels
\* returns 12 spans named January to December in order, each ending where
\* the next starts and none empty, the first starting at week 1 and the last
\* ending at totalWeeks + 1.
C16_TwelveContiguousSpans ==
    FullYearLabelsReturned =>
        LET labels == utilOut[1]
        IN  /\ Len(labels) = 12
            /\ \A i \in 1..12 :
                  /\ labels[i].name = getMonthNames[i]
                  /\ labels[i].startColumn < labels[i].endColumn
            /\ \A i \in 1..11 : labels[i].endColumn = labels[i + 1].startColumn
            /\ labels[1].startColumn = 1
            /\ labels[12].endColumn
                  = WeeksOfRange(utilCall.rangeStart, utilCall.rangeEnd, 0) + 1

\* The labels of a leap year have been returned where the clocks change.
C16_Witness ==
    /\ FullYearLabelsReturned
    /\ timeZone = "Europe/Berlin"
    /\ utilCall.rangeStart = ValidDate(daysFromCivil(2024, 1, 1))
    /\ Len(utilOut[1]) = 12
    /\ utilOut[1][12].endColumn = 54

\* C17: every week of the range lies in the span of the month of the week's
\* last day within the range, the chronologically latest month of the week.
C17_WeekInLatestMonth ==
    Returned("generateMonthLabels") =>
        LET labels == utilOut[1]
            days   == utilCall.rangeStart.day .. utilCall.rangeEnd.day
            weekOf == [n \in days |->
                          getWeekNumber(ValidDate(n), utilCall.rangeStart, utilCall.weekStart)]
        IN  \A n \in days :
                (\A k \in days : weekOf[k] = weekOf[n] => k <= n) =>
                    \E i \in 1..Len(labels) :
                        /\ labels[i].startColumn <= weekOf[n]
                        /\ weekOf[n] < labels[i].endColumn
                        /\ labels[i].name = getMonthNames[getMonth(ValidDate(n)) + 1]

\* The call's start or end text, with the white space around it taken off.
StartText == trim(utilCall.startDate)

EndText == trim(utilCall.endDate)

\* The entries' keys that can be read as dates.
ParsedKeys == {d \in {parseIsoOrLegacy(k) : k \in DOMAIN utilCall.entries} : d.kind = "date"}

\* C18: end is endStr when that is a strict-ISO date and today otherwise;
\* start is startStr when that is a strict-ISO date, otherwise the earliest
\* date among the entries' keys, otherwise the first of January of the end
\* year; both are at local midnight.
C18_RangeFromTexts ==
    Returned("calculateDateRange") =>
        LET range == utilOut[1]
        IN  /\ range.end = IF IsCalendarText(EndText) THEN ValidDate(DayOfText(EndText))
                           ELSE ValidDate(Now.day)
            /\ range.start =
                  IF IsCalendarText(StartText) THEN ValidDate(DayOfText(StartText))
                  ELSE IF ParsedKeys # {}
                       THEN ValidDate(CHOOSE n \in {d.day : d \in ParsedKeys} :
                                         \A d \in ParsedKeys : n <= d.day)
                       ELSE ValidDate(daysFromCivil(civilFromDays(range.end.day).year, 1, 1))

\* C19: every range calculateDateRange returns has start <= end.
C19_StartNotAfterEnd ==
    Returned("calculateDateRange") => getTime(utilOut[1].start) <= getTime(utilOut[1].end)

\* p <= q for two quotients with positive denominators.
QuotientLessEq(p, q) == p.num * q.den <= q.num * p.den

\* C20: with min = max the intensity is 1 whatever the value; with min < max
\* it is 0 for a value <= min, 1 for a value >= max, (v - min) / (max - min)
\* in between, and not less than the intensity of a smaller value.
C20_Intensity ==
    Returned("calculateIntensityNumeric") =>
        LET v   == utilCall.value
            lo  == utilCall.min
            hi  == utilCall.max
            out == utilOut[1]
        IN  /\ out.den > 0
            /\ lo = hi => out.num = out.den
            /\ lo < hi =>
                 /\ v <= lo => out.num = 0
                 /\ v >= hi => out.num = out.den
                 /\ (lo < v /\ v < hi) => out.num * (hi - lo) = (v - lo) * out.den
                 /\ QuotientLessEq(calculateIntensityNumeric(v - 1, lo, hi), out)

\* An intensity strictly between 0 and 1 has been returned, and so has the
\* intensity 1 of a value below min = max.
C20_Witness ==
    /\ Returned("calculateIntensityNumeric")
    /\ \/ 0 < utilOut[1].num /\ utilOut[1].num < utilOut[1].den
       \/ utilCall.min = utilCall.max /\ utilCall.value < utilCall.min

\* Intensities the level of a call is compared with: the eighths from -1 to
\* 2, the quotient one step below the argument, and 0.25.
LevelProbes(q) ==
    {Quotient(n, 8) : n \in (-8)..16}
        \cup {Quotient(q.num - 1, q.den), Quotient(25, 100)}

-----------------------------------------------------------------------------
(* Properties of processData: other values, undated entries, order         *)

\* The value of the first entry of the call is of none of the classes
\* extractValue names, the entry has a date, and the loop has taken it.
FirstEntryOfOtherKind ==
    /\ pdIdx = 2
    /\ getValue(pdArgs.entries[1], pdArgs.valueProperty).kind = "other"
    /\ extractDate(pdArgs.entries[1], pdArgs.dateProperty, pdArgs.dateFormat) # <<>>

\* C22 as stated: a value of another kind counts as a boolean, 1 if it is
\* truthy and 0 otherwise: after the iteration of such an entry the running
\* type is "boolean", the count is 1 and the entry of its date holds 1 or 0.
C22_OtherKindIsBoolean ==
    FirstEntryOfOtherKind =>
        LET entry == pdArgs.entries[1]
            date  == extractDate(entry, pdArgs.dateProperty, pdArgs.dateFormat)
        IN  /\ pd.valueType = "boolean"
            /\ pd.count = 1
            /\ pd.entries[date].value =
                   Num(IF getValue(entry, pdArgs.valueProperty).truthy THEN 1 ELSE 0)

\* The entries of the call that have a date.
DatedEntriesOfCall ==
    SelectSeq(pdArgs.entries,
              LAMBDA e : extractDate(e, pdArgs.dateProperty, pdArgs.dateFormat) # <<>>)

\* C25: an entry without a date is skipped without effect: the iteration of
\* such an entry changes none of the locals, and processData returns what it
\* returns for the entries that have a date alone, whatever the values of
\* the others.
C25_UndatedSkipped ==
    /\ (pdIdx > 1 /\ RawDates[pdIdx - 1] = <<>>) =>
           pd = processDataLoop(processDataStart, SubSeq(pdArgs.entries, 1, pdIdx - 2),
                                pdArgs.dateProperty, pdArgs.dateFormat,
                                pdArgs.valueProperty)
    /\ pdOut # <<>> =>
           pdOut[1] = processData(DatedEntriesOfCall, pdArgs.dateProperty,
                                  pdArgs.dateFormat, pdArgs.valueProperty)

\* A call has returned in which an undated entry carries a usable value of
\* a type the dated entries do not have, and the type returned is theirs.
C25_Witness ==
    /\ pdOut # <<>>
    /\ \E i, j \in 1..Len(pdArgs.entries) :
         /\ RawDates[i] = <<>>
         /\ RawDates[j] # <<>>
         /\ RawValues[i].type = "boolean"
         /\ RawValues[j].type = "number"
    /\ pdOut[1].stats.valueType = "number"
    /\ pdOut[1].stats.count = 1

\* The entries of the call in the order p.
InOrder(p) == [i \in 1..Len(pdArgs.entries) |-> pdArgs.entries[p[i]]]

\* The dates of a map with their values.
ValuesByDate(map) == [d \in DOMAIN map |-> map[d].value]

\* C30: processData returns the same values by date and the same min, max,
\* count and valueType for the entries in any order.
C30_OrderIndependent ==
    pdOut # <<>> =>
        \A p \in Permutations(1..Len(pdArgs.entries)) :
            \A other \in {processData(InOrder(p), pdArgs.dateProperty, pdArgs.dateFormat,
                                      pdArgs.valueProperty)} :
                /\ ValuesByDate(other.entries) = ValuesByDate(pdOut[1].entries)
                /\ other.stats = pdOut[1].stats

\* A call has returned whose entries tie on the largest value of a date and
\* whose other order keeps the other note.
C30_Witness ==
    /\ pdOut # <<>>
    /\ Len(pdArgs.entries) >= 2
    /\ \E p \in Permutations(1..Len(pdArgs.entries)) :
         \E d \in DOMAIN pdOut[1].entries :
            /\ ~pdOut[1].entries[d].value.isNull
            /\ processData(InOrder(p), pdArgs.dateProperty, pdArgs.dateFormat,
                           pdArgs.valueProperty).entries[d].note
                   # pdOut[1].entries[d].note

-----------------------------------------------------------------------------
(* Properties of the grid                                                  *)

\* The grid of a renderHeatmap call is in the document.
GridShown == utilCall.fn = "renderHeatmap" /\ utilLocals.pc = "grid"

\* C23: a click on a cell opens a note if and only if the date of the cell
\* has an aggregated entry, which is when the state of the cell is zero or
\* filled, and the note opened is the note of that entry; a click on an
\* empty cell or outside the cells opens nothing.
C23_ClickOpensNoteOfEntry ==
    Returned("renderHeatmap") =>
        LET target == utilOut[1].target
            opened == utilOut[1].opened
        IN  IF target = OutsideCells THEN opened = <<>>
            ELSE \A cell \in {utilLocals.grid.cells[target]} :
                   \A entry \in {entriesGet(utilCall.data.entries, cell.date)} :
                      /\ cell.state.type \in {"zero", "filled"} <=> entry # <<>>
                      /\ opened # <<>> <=> entry # <<>>
                      /\ entry # <<>> => opened = <<entry[1].note.path>>

\* Clicks have opened the note of a cell without a value and opened nothing
\* on an empty cell.
C23_Witness ==
    /\ Returned("renderHeatmap")
    /\ utilOut[1].target # OutsideCells
    /\ utilLocals.grid.cells[utilOut[1].target].state.type = "zero"
    /\ utilOut[1].opened = <<"n-unset">>
    /\ \E i \in 1..Len(utilLocals.grid.cells) :
         /\ utilLocals.grid.cells[i].state.type = "empty"
         /\ clickHandler(utilLocals.grid, i) = <<>>

\* C24 as stated: the intensity of every filled cell of a grid is a number
\* from 0 to 1.
C24_IntensityInUnitInterval ==
    GridShown =>
        \A i \in 1..Len(utilLocals.grid.cells) :
            utilLocals.grid.cells[i].state.type = "filled" =>
                LET q == utilLocals.grid.cells[i].state.intensity
                IN  q.den > 0 /\ 0 <= q.num /\ q.num <= q.den

\* The days from the start to the end of the range of the call.
DaysOfGridRange == utilCall.dateRange.start.day .. utilCall.dateRange.end.day

\* C26 as stated: the grid has exactly one cell for every date of the range,
\* in rows 1..7 and columns 1..totalWeeks, and no two cells share a
\* position.
C26_OneCellPerDateAndPosition ==
    GridShown =>
        LET cells == utilLocals.grid.cells
        IN  /\ Len(cells) = Cardinality(DaysOfGridRange)
            /\ \A n \in DaysOfGridRange :
                 \E i \in 1..Len(cells) : cells[i].date = formatDateISO(ValidDate(n))
            /\ \A i \in 1..Len(cells) :
                 /\ cells[i].gridRow \in 1..7
                 /\ cells[i].gridColumn \in 1..utilLocals.grid.totalWeeks
            /\ \A i, j \in 1..Len(cells) :
                 i # j => <<cells[i].gridRow, cells[i].gridColumn>>
                              # <<cells[j].gridRow, cells[j].gridColumn>>

-----------------------------------------------------------------------------
(* Properties of the settings and the views                                *)

\* C27 as stated: once the settings are loaded, settings.colorSchemes is
\* never empty, whatever schemes have been added, edited and deleted, and
\* the lookup of render finds a scheme for every id a view is configured
\* with.
C27_SchemeResolved ==
    settings.loaded =>
        /\ Len(ColorSchemes) > 0
        /\ \A id \in {GreenSchemeId, <<"s", "e", "a">>} :
             findSchemeItem(ColorSchemes, id) # <<>>


-----------------------------------------------------------------------------
(* Properties of the registry of the views and of the saves                *)

\* The times the view is listed in activeViews.
TimesListed(id) == Cardinality({i \in 1..Len(activeViews) : activeViews[i] = id})

\* activeViews lists each constructed view that is not unloaded once, and no
\* other view.
RegistryExact ==
    \A id \in HeatmapViewIds :
        TimesListed(id) = IF heatmapViews[id].life = "constructed" THEN 1 ELSE 0

\* The step re-renders, with the settings as they are, the listed views
\* whose container is connected, and leaves the other views as they were.
RefreshesListedConnected ==
    \A id \in HeatmapViewIds :
        IF includes(activeViews, id) /\ heatmapViews[id].connected
        THEN /\ heatmapViews'[id].renderedWith =
                    <<SettingsRead(ColorSchemes, settings.dateFormat)>>
             /\ heatmapViews'[id].view =
                    render(heatmapViews[id].view, heatmapViews[id].config, PluginData,
                           ColorSchemes, settings.dateFormat, Now)
        ELSE heatmapViews'[id] = heatmapViews[id]

\* C28 as stated: after any constructions and unloads of views, activeViews
\* holds each view that is constructed and not unloaded exactly once and no
\* unloaded view, and refreshAllViews (on css-change and after a save)
\* re-renders exactly the listed views whose container is connected to the
\* document and leaves the others untouched.
C28_RegistryAndRefresh ==
    /\ []RegistryExact
    /\ [][(CssChange \/ SaveCompletes) => RefreshesListedConnected]_vars

\* Every listed view whose container is connected shows the settings as
\* they are.
AllViewsCurrent ==
    \A id \in HeatmapViewIds :
        (includes(activeViews, id) /\ heatmapViews[id].connected) =>
            heatmapViews[id].renderedWith =
                <<SettingsRead(ColorSchemes, settings.dateFormat)>>

\* A handler of the settings tab changes the settings.
SettingsMutation == TabDeleteScheme \/ TabAddScheme \/ TabEditScheme \/ TabSetDateFormat

\* C29 as stated: a change of the settings (a scheme added, edited or
\* deleted, or the date format) starts a save before any view is refreshed;
\* when the save completes every registered view whose container is
\* connected is re-rendered with the changed settings; and a save that is
\* under way leads to that unless a save fails.
C29_SaveThenRefresh ==
    /\ [][SettingsMutation =>
              /\ heatmapViews' = heatmapViews
              /\ Len(saves'.pending) = Len(saves.pending) + 1]_vars
    /\ [][SaveCompletes => AllViewsCurrent']_vars
    /\ (saves.pending # <<>>) ~> (saves.failed \/ AllViewsCurrent)

====
